---- MODULE Spec2Model ----
(***************************************************************************)
(* Model of the chart web service of RecomendedChartWS.                    *)
(*                                                                         *)
(* The aggregation engine (DataFrameService.get_aggregated_data and its    *)
(* _prepare_* helpers) and the ChartService entry point in front of it are *)
(* modelled over small tables.  pandas operations are modelled by what     *)
(* they do on such tables:                                                 *)
(*   groupby(col)        groups of the non-null keys, sorted by key        *)
(*   .size()             rows per group                                    *)
(*   [y].agg(f)          f over the non-null y cells of each group         *)
(*   value_counts()      non-null keys by descending count, ties in order  *)
(*                       of first appearance                               *)
(*   dropna()            rows without a null cell, in row order            *)
(*   reset_index()       the key becomes a column; ValueError when a       *)
(*                       column of that name already exists                *)
(*                                                                         *)
(* Three further components have a specification of their own: the         *)
(* fallback heuristic MockRecommendationService (SpecRec), the             *)
(* orchestrator AIAnalysisService with the client OpenAILLMClient          *)
(* (SpecOrch), and the profiler DataFrameService.get_dataframe_summary     *)
(* (SpecSummary).  In each the components that take no part stay idle.     *)
(***************************************************************************)
EXTENDS Integers, Sequences, FiniteSets, TLC

(***************************************************************************)
(* Bounds of the model.                                                    *)
(***************************************************************************)
MaxRows == 2

(***************************************************************************)
(* Cells.  A number is the rational n/d in lowest terms with its dtype     *)
(* (int64 or float64); a missing value is Null (NaN / None).               *)
(***************************************************************************)
Null == [k |-> "null"]

StrCell(s) == [k |-> "str", s |-> s]

IntCell(n) == [k |-> "num", n |-> n, d |-> 1, t |-> "int"]

RECURSIVE GCD(_, _)
GCD(a, b) == IF b = 0 THEN a ELSE GCD(b, a % b)

FloatCell(n, d) ==
    LET g == GCD(n, d)
    IN  [k |-> "num", n |-> n \div g, d |-> d \div g, t |-> "float"]

IsNum(c) == c.k = "num"

IsStr(c) == c.k = "str"

\* Python's == on two numbers: 5 == 5.0.
NumEq(a, b) == IsNum(a) /\ IsNum(b) /\ a.n = b.n /\ a.d = b.d

\* Python's == on two cells of a payload (a missing value matches a missing value).
CellEq(a, b) == IF IsNum(a) /\ IsNum(b) THEN NumEq(a, b) ELSE a = b

(***************************************************************************)
(* The tables: two columns, region (text) and sales (numeric), both        *)
(* nullable.                                                               *)
(***************************************************************************)
Columns == {"region", "sales"}

RegionValues == {"N", "S"}

SalesValues == {5, 10, 20}

RowSet ==
    [region : {StrCell(s) : s \in RegionValues} \cup {Null},
     sales  : {IntCell(n) : n \in SalesValues} \cup {Null}]

RECURSIVE SeqsUpTo(_, _)
SeqsUpTo(S, n) ==
    IF n = 0 THEN {<<>>}
    ELSE LET shorter == SeqsUpTo(S, n - 1)
         IN  shorter \cup {Append(s, e) : s \in {t \in shorter : Len(t) = n - 1}, e \in S}

Tables == SeqsUpTo(RowSet, MaxRows)

(***************************************************************************)
(* The DataFrame as pandas holds it: sales is int64, or float64 as soon as *)
(* one of its cells is missing; region is an object column.                *)
(***************************************************************************)
Dtype(df, col) ==
    IF col = "sales"
    THEN IF \E i \in 1..Len(df) : df[i][col] = Null THEN "float64" ELSE "int64"
    ELSE "object"

AsDtype(c, dtype) ==
    IF IsNum(c) /\ dtype = "float64" THEN FloatCell(c.n, c.d) ELSE c

\* df[col]: the cells of a column, in row order.
Column(df, col) == [i \in 1..Len(df) |-> AsDtype(df[i][col], Dtype(df, col))]

\* Python's ord() on the one-character region names.
Ord(s) == CASE s = "N" -> 78 [] s = "S" -> 83 [] OTHER -> 0

\* Python's < on two cells of one column.
Less(a, b) ==
    IF IsNum(a) /\ IsNum(b) THEN a.n * b.d < b.n * a.d
    ELSE IF IsStr(a) /\ IsStr(b) THEN Ord(a.s) < Ord(b.s)
    ELSE FALSE

\* Series.astype(str) on one key.
AsStr(c) ==
    IF IsStr(c) THEN c.s
    ELSE IF IsNum(c) THEN (IF c.t = "float" THEN ToString(c.n) \o ".0" ELSE ToString(c.n))
    ELSE "nan"

RECURSIVE SortCells(_)
SortCells(S) ==
    IF S = {} THEN <<>>
    ELSE LET m == CHOOSE m \in S : \A o \in S : ~Less(o, m)
         IN  <<m>> \o SortCells(S \ {m})

NonNull(cells) == SelectSeq(cells, LAMBDA c : c # Null)

Range(f) == {f[i] : i \in DOMAIN f}

(***************************************************************************)
(* groupby(col): the non-null keys in ascending order (sort=True,          *)
(* dropna=True are the defaults the code leaves in place), and the cells   *)
(* of another column that fall in one group.                               *)
(***************************************************************************)
\* groupby(col, dropna=False): the missing key makes a group of its own.
GroupKeysKeepNa(df, col) == SortCells(Range(Column(df, col)))

GroupKeys(df, col) == SortCells(Range(Column(df, col)) \ {Null})

GroupCells(df, col, key, ycol) ==
    LET xs == Column(df, col)
        ys == Column(df, ycol)
        idx == SelectSeq([i \in 1..Len(df) |-> i], LAMBDA i : xs[i] = key)
    IN  [j \in 1..Len(idx) |-> ys[idx[j]]]

GroupSize(df, col, key) ==
    Cardinality({i \in 1..Len(df) : Column(df, col)[i] = key})

(***************************************************************************)
(* The pandas aggregations over the cells of one group.  Missing cells are *)
(* skipped; an aggregation that pandas cannot compute is AggError.         *)
(***************************************************************************)
AggError == [k |-> "error", exc |-> "TypeError"]

RECURSIVE SumNum(_)
SumNum(cells) == IF cells = <<>> THEN 0 ELSE Head(cells).n + SumNum(Tail(cells))

RECURSIVE Concat(_)
Concat(cells) == IF cells = <<>> THEN "" ELSE Head(cells).s \o Concat(Tail(cells))

Extreme(cells, wantMax) ==
    CHOOSE m \in Range(cells) :
        \A o \in Range(cells) : IF wantMax THEN ~Less(m, o) ELSE ~Less(o, m)

\* skipna=False: one missing cell makes the aggregate of the group missing.
AggNumericKeepNa(cells, agg_func, dtype) ==
    LET total == SumNum(NonNull(cells))
    IN  IF Len(NonNull(cells)) < Len(cells) THEN Null
        ELSE CASE agg_func = "sum" ->
                      IF dtype = "float64" THEN FloatCell(total, 1) ELSE IntCell(total)
               [] agg_func = "mean" ->
                      IF cells = <<>> THEN Null ELSE FloatCell(total, Len(cells))
               [] agg_func \in {"max", "min"} ->
                      IF cells = <<>> THEN Null ELSE Extreme(cells, agg_func = "max")

AggNumeric(cells, agg_func, dtype) ==
    LET vals == NonNull(cells)
        total == SumNum(vals)
    IN  CASE agg_func = "sum" ->
                 IF dtype = "float64" THEN FloatCell(total, 1) ELSE IntCell(total)
          [] agg_func = "mean" ->
                 IF vals = <<>> THEN Null ELSE FloatCell(total, Len(vals))
          [] agg_func \in {"max", "min"} ->
                 IF vals = <<>> THEN Null ELSE Extreme(vals, agg_func = "max")

\* An object column: sum concatenates the strings, mean cannot convert them,
\* max and min compare them (and cannot compare a string with a missing value).
AggObject(cells, agg_func) ==
    LET vals == NonNull(cells)
    IN  CASE agg_func = "sum" ->
                 IF vals = <<>> THEN IntCell(0) ELSE StrCell(Concat(vals))
          [] agg_func = "mean" ->
                 IF vals = <<>> THEN Null ELSE AggError
          [] agg_func \in {"max", "min"} ->
                 IF vals = <<>> THEN Null
                 ELSE IF Len(vals) < Len(cells) THEN AggError
                 ELSE Extreme(vals, agg_func = "max")

Aggregate(cells, agg_func, dtype) ==
    IF dtype = "object" THEN AggObject(cells, agg_func)
    ELSE AggNumeric(cells, agg_func, dtype)

(***************************************************************************)
(* Requests and outcomes.  None is Python's None (an omitted y_axis).  An  *)
(* outcome is a payload or the exception that left the call, with the      *)
(* stage of get_aggregated_data that raised it.                            *)
(***************************************************************************)
None == "None"

ChartTypes == {"bar", "line", "pie", "scatter", "area"}

Aggregations == {"sum", "mean", "count", "max", "min", "median"}

XAxes == {"region", "sales", "missing"}

YAxes == {None, "region", "sales", "missing"}

Requests ==
    [chart_type : ChartTypes, x_axis : XAxes, y_axis : YAxes, aggregation : Aggregations]

Ok(p) == [status |-> "ok", payload |-> p]

Raised(exc, stage) == [status |-> "raised", exc |-> exc, stage |-> stage]

NoResult == [status |-> "none"]

\* One record of DataFrame.to_dict('records') for a two-column frame.
Record(c1, v1, c2, v2) == (c1 :> v1) @@ (c2 :> v2)

\* The frame a groupby leaves after reset_index: one row per group.
GroupedRow(key, value) == [key |-> key, value |-> value]

\* sort_values(y_axis): ascending by the aggregated value.
RECURSIVE SortValuesByValue(_)
SortValuesByValue(grouped) ==
    IF grouped = <<>> THEN <<>>
    ELSE LET i == CHOOSE i \in 1..Len(grouped) :
                      /\ \A j \in 1..Len(grouped) : ~Less(grouped[j].value, grouped[i].value)
                      /\ \A j \in 1..(i - 1) : Less(grouped[i].value, grouped[j].value)
         IN  <<grouped[i]>> \o
             SortValuesByValue(SubSeq(grouped, 1, i - 1) \o SubSeq(grouped, i + 1, Len(grouped)))

\* grouped.sort_values(x_axis): ascending by the key column, ties in place.
RECURSIVE SortValues(_)
SortValues(grouped) ==
    IF grouped = <<>> THEN <<>>
    ELSE LET i == CHOOSE i \in 1..Len(grouped) :
                      /\ \A j \in 1..Len(grouped) : ~Less(grouped[j].key, grouped[i].key)
                      /\ \A j \in 1..(i - 1) : Less(grouped[i].key, grouped[j].key)
         IN  <<grouped[i]>> \o
             SortValues(SubSeq(grouped, 1, i - 1) \o SubSeq(grouped, i + 1, Len(grouped)))

\* df.groupby(x).size(): one row per group with the number of its rows.
GroupBySize(df, x) ==
    LET keys == GroupKeys(df, x)
    IN  [i \in 1..Len(keys) |-> GroupedRow(keys[i], IntCell(GroupSize(df, x, keys[i])))]

\* df.groupby(x)[y].agg(agg_func): one row per group with the aggregate of y.
GroupByAgg(df, x, y, agg_func) ==
    LET keys == GroupKeys(df, x)
    IN  [i \in 1..Len(keys) |->
            GroupedRow(keys[i], Aggregate(GroupCells(df, x, keys[i], y), agg_func, Dtype(df, y)))]

AggFails(grouped) == \E i \in 1..Len(grouped) : grouped[i].value = AggError

BarLineAggFunc(aggregation) ==
    IF aggregation \in {"sum", "mean", "count", "max", "min"} THEN aggregation ELSE "sum"

\* _prepare_bar_line_data.  In order: groupby(x_axis)[None] is a KeyError; the
\* aggregation may fail; reset_index cannot insert the key column beside a
\* value column of the same name (y_axis = x_axis, the count column included).
\* With count and y_axis omitted the count column is named None
\* (reset_index(name=None), pandas 1.5 and later).
PrepareBarLineData(df, x_axis, y_axis, aggregation) ==
    LET agg_func == BarLineAggFunc(aggregation)
        grouped == SortValues(IF aggregation = "count"
                              THEN GroupBySize(df, x_axis)
                              ELSE GroupByAgg(df, x_axis, y_axis, agg_func))
    IN  IF aggregation # "count" /\ y_axis = None THEN Raised("KeyError", "prepare")
        ELSE IF aggregation # "count" /\ AggFails(grouped) THEN Raised("TypeError", "prepare")
        ELSE IF y_axis = x_axis THEN Raised("ValueError", "prepare")
        ELSE Ok([labels |-> [i \in 1..Len(grouped) |-> AsStr(grouped[i].key)],
                 values |-> [i \in 1..Len(grouped) |-> grouped[i].value],
                 data   |-> [i \in 1..Len(grouped) |->
                                Record(x_axis, grouped[i].key, y_axis, grouped[i].value)]])

\* The keys of a column in order of first appearance, missing values left out.
RECURSIVE FirstAppearance(_, _)
FirstAppearance(cells, seen) ==
    IF cells = <<>> THEN <<>>
    ELSE IF Head(cells) = Null \/ Head(cells) \in seen
         THEN FirstAppearance(Tail(cells), seen)
         ELSE <<Head(cells)>> \o FirstAppearance(Tail(cells), seen \cup {Head(cells)})

\* Descending by count, ties in place.
RECURSIVE SortByCountDesc(_)
SortByCountDesc(grouped) ==
    IF grouped = <<>> THEN <<>>
    ELSE LET i == CHOOSE i \in 1..Len(grouped) :
                      /\ \A j \in 1..Len(grouped) : ~Less(grouped[i].value, grouped[j].value)
                      /\ \A j \in 1..(i - 1) : Less(grouped[j].value, grouped[i].value)
         IN  <<grouped[i]>> \o
             SortByCountDesc(SubSeq(grouped, 1, i - 1) \o SubSeq(grouped, i + 1, Len(grouped)))

\* drop_duplicates() in place of value_counts(): every key once, counted once.
ValueCountsOnce(df, col) ==
    LET keys == FirstAppearance(Column(df, col), {})
    IN  [i \in 1..Len(keys) |-> GroupedRow(keys[i], IntCell(1))]

\* df[col].value_counts().reset_index()
ValueCounts(df, col) ==
    LET keys == FirstAppearance(Column(df, col), {})
    IN  SortByCountDesc([i \in 1..Len(keys) |->
                            GroupedRow(keys[i], IntCell(GroupSize(df, col, keys[i])))])

\* The pie chart's table of aggregations with max and min in it.
PieAggFuncFive(aggregation) ==
    IF aggregation \in {"sum", "mean", "count", "max", "min"} THEN aggregation ELSE "sum"

PieAggFunc(aggregation) ==
    IF aggregation \in {"sum", "mean", "count"} THEN aggregation ELSE "sum"

\* count taken as .agg('count'): the non-null cells of value_col per group.
PreparePieDataCountPresent(df, category_col, value_col, aggregation) ==
    LET keys == GroupKeys(df, category_col)
        grouped == IF value_col # None
                   THEN IF aggregation = "count"
                        THEN [i \in 1..Len(keys) |->
                                 GroupedRow(keys[i],
                                     IntCell(Len(NonNull(GroupCells(df, category_col, keys[i],
                                                                    value_col)))))]
                        ELSE GroupByAgg(df, category_col, value_col, PieAggFunc(aggregation))
                   ELSE ValueCounts(df, category_col)
    IN  IF value_col # None /\ aggregation # "count" /\ AggFails(grouped)
        THEN Raised("TypeError", "prepare")
        ELSE Ok([labels |-> [i \in 1..Len(grouped) |-> grouped[i].key],
                 values |-> [i \in 1..Len(grouped) |-> grouped[i].value],
                 data   |-> [i \in 1..Len(grouped) |->
                                Record(category_col, grouped[i].key, "value", grouped[i].value)]])

\* _prepare_pie_data.  The value column is named 'value', so value_col may
\* name the category column; the labels are the keys themselves, not strings.
PreparePieData(df, category_col, value_col, aggregation) ==
    LET agg_func == PieAggFunc(aggregation)
        grouped == IF value_col # None
                   THEN IF aggregation = "count"
                        THEN GroupBySize(df, category_col)
                        ELSE GroupByAgg(df, category_col, value_col, agg_func)
                   ELSE ValueCounts(df, category_col)
    IN  IF value_col # None /\ aggregation # "count" /\ AggFails(grouped)
        THEN Raised("TypeError", "prepare")
        ELSE Ok([labels |-> [i \in 1..Len(grouped) |-> grouped[i].key],
                 values |-> [i \in 1..Len(grouped) |-> grouped[i].value],
                 data   |-> [i \in 1..Len(grouped) |->
                                Record(category_col, grouped[i].key, "value", grouped[i].value)]])

\* Python's float() on a cell of a row.
Float(c) == FloatCell(c.n, c.d)

\* df[[x_axis, y_axis]].dropna(): the rows with both cells present, in row order.
DropNa(df, x_axis, y_axis) ==
    SelectSeq([i \in 1..Len(df) |-> i],
              LAMBDA i : df[i][x_axis] # Null /\ df[i][y_axis] # Null)

\* With x_axis = y_axis the frame has two columns of one name: row[x_axis] is a
\* Series that float() rejects, and clean_df[x_axis] is a frame without tolist().
PrepareScatterData(df, x_axis, y_axis) ==
    IF y_axis = None THEN Raised("KeyError", "prepare")
    ELSE LET clean == DropNa(df, x_axis, y_axis)
             xs == Column(df, x_axis)
             ys == Column(df, y_axis)
         IN  IF x_axis = y_axis
             THEN IF clean # <<>> THEN Raised("TypeError", "prepare")
                  ELSE Raised("AttributeError", "prepare")
             ELSE IF \E j \in 1..Len(clean) : IsStr(xs[clean[j]]) \/ IsStr(ys[clean[j]])
             THEN Raised("ValueError", "prepare")
             ELSE Ok([data     |-> [j \in 1..Len(clean) |->
                                       [x |-> Float(xs[clean[j]]), y |-> Float(ys[clean[j]])]],
                      x_values |-> [j \in 1..Len(clean) |-> xs[clean[j]]],
                      y_values |-> [j \in 1..Len(clean) |-> ys[clean[j]]]])

(***************************************************************************)
(* DataFrameService.get_aggregated_data                                    *)
(***************************************************************************)
\* Without the column checks: a missing column surfaces from pandas, as a
\* KeyError, once the grouping is under way.
GetAggregatedDataUnvalidated(df, x_axis, y_axis, chart_type, aggregation) ==
    IF chart_type \notin {"pie", "bar", "line", "scatter"} THEN Raised("ValueError", "dispatch")
    ELSE IF x_axis \notin Columns \/ (y_axis # None /\ y_axis \notin Columns)
         THEN Raised("KeyError", "prepare")
    ELSE IF chart_type = "pie" THEN PreparePieData(df, x_axis, y_axis, aggregation)
    ELSE IF chart_type = "scatter" THEN PrepareScatterData(df, x_axis, y_axis)
    ELSE PrepareBarLineData(df, x_axis, y_axis, aggregation)

GetAggregatedData(df, x_axis, y_axis, chart_type, aggregation) ==
    IF x_axis \notin Columns THEN Raised("ValueError", "validate")
    ELSE IF y_axis # None /\ y_axis \notin Columns THEN Raised("ValueError", "validate")
    ELSE IF chart_type = "pie" THEN PreparePieData(df, x_axis, y_axis, aggregation)
    ELSE IF chart_type \in {"bar", "line"}
         THEN PrepareBarLineData(df, x_axis, y_axis, aggregation)
    ELSE IF chart_type = "scatter" THEN PrepareScatterData(df, x_axis, y_axis)
    ELSE Raised("ValueError", "dispatch")

(***************************************************************************)
(* ChartService.get_chart_data_bytes, after the table is loaded: the chart *)
(* type is checked first, the payload is wrapped with the echoed request.  *)
(***************************************************************************)
ValidTypes == {"bar", "line", "pie", "scatter"}

GetChartDataBytes(df, rq) ==
    IF rq.chart_type \notin ValidTypes THEN Raised("ValueError", "service")
    ELSE LET aggregated_data ==
                 GetAggregatedData(df, rq.x_axis, rq.y_axis, rq.chart_type, rq.aggregation)
         IN  IF aggregated_data.status # "ok" THEN aggregated_data
             ELSE Ok([chart_type  |-> rq.chart_type,
                      data        |-> aggregated_data.payload,
                      parameters  |-> [x_axis |-> rq.x_axis, y_axis |-> rq.y_axis],
                      aggregation |-> rq.aggregation])

(***************************************************************************)
(* The fallback heuristic, MockRecommendationService.                      *)
(*                                                                         *)
(* A summary is a dict: a function on the keys it holds.  'columns' is the *)
(* list of column names, 'column_types' the dict of classifications, kept  *)
(* as the sequence of its items in insertion order (the order in which     *)
(* _classify_columns fills it, which is the order of the columns).         *)
(***************************************************************************)
MaxCols == 4

ColumnTypes == {"numeric", "categorical", "datetime", "text", "other"}

ColumnName(i) == "c" \o ToString(i)

\* The items of a column_types dict over the first n columns.
TypeItems(n) ==
    { [i \in 1..n |-> [col |-> ColumnName(i), type |-> t[i]]] :
        t \in [1..n -> ColumnTypes] }

\* The summaries the profiler hands over: the column names and, in the same
\* order, the classification of each column.
Summaries ==
    UNION { { [columns |-> [i \in 1..n |-> ColumnName(i)], column_types |-> items] :
                items \in TypeItems(n) } : n \in 0..MaxCols }

\* dict.get(key, default)
DictGet(d, key, default) == IF key \in DOMAIN d THEN d[key] ELSE default

\* [col for col, col_type in column_types.items() if col_type == t]
ColsOfType(column_types, t) ==
    LET items == SelectSeq(column_types, LAMBDA it : it.type = t)
    IN  [i \in 1..Len(items) |-> items[i].col]

Recommendation(title, chart_type, parameters, insight) ==
    [title |-> title, chart_type |-> chart_type,
     parameters |-> parameters, insight |-> insight]

\* Rule 1: bar chart of the first numeric column by the first categorical one.
BarRule(numeric_cols, categorical_cols) ==
    IF Len(categorical_cols) > 0 /\ Len(numeric_cols) > 0
    THEN LET cat_col == categorical_cols[1]
             num_col == numeric_cols[1]
         IN  << Recommendation(
                  num_col \o " por " \o cat_col, "bar",
                  [x_axis |-> cat_col, y_axis |-> num_col],
                  "Este gráfico de barras compara " \o num_col
                    \o " en diferentes categorías de " \o cat_col
                    \o ", mostrando cuáles son el mejor desempeño.") >>
    ELSE <<>>

\* Rule 2: line chart of the first numeric column over the first datetime one.
LineRule(numeric_cols, datetime_cols) ==
    IF Len(datetime_cols) > 0 /\ Len(numeric_cols) > 0
    THEN LET dt_col == datetime_cols[1]
             num_col == numeric_cols[1]
         IN  << Recommendation(
                  "Tendencia de " \o num_col \o " en el tiempo", "line",
                  [x_axis |-> dt_col, y_axis |-> num_col],
                  "Este gráfico de líneas muestra cómo cambia " \o num_col
                    \o " a lo largo del tiempo, destacando tendencias y patrones en los datos temporales.") >>
    ELSE <<>>

\* Rule 3: pie chart of the first categorical column, weighted by the first
\* numeric column when there is one.
PieRule(numeric_cols, categorical_cols) ==
    IF Len(categorical_cols) > 0
    THEN LET cat_col == categorical_cols[1]
         IN  IF Len(numeric_cols) > 0
             THEN LET num_col == numeric_cols[1]
                  IN  << Recommendation(
                           "Distribución de " \o cat_col, "pie",
                           [x_axis |-> cat_col, y_axis |-> num_col],
                           "Este gráfico circular muestra la distribución proporcional de "
                             \o cat_col \o " basada en " \o num_col
                             \o ", facilitando la visualización de proporciones relativas.") >>
             ELSE << Recommendation(
                       "Distribución de " \o cat_col, "pie",
                       [x_axis |-> cat_col],
                       "Este gráfico circular muestra la distribución de categorías de "
                         \o cat_col \o ", revelando la frecuencia relativa de cada categoría.") >>
    ELSE <<>>

\* Rule 4: scatter of the first two numeric columns.
ScatterRule(numeric_cols) ==
    IF Len(numeric_cols) >= 2
    THEN LET x_col == numeric_cols[1]
             y_col == numeric_cols[2]
         IN  << Recommendation(
                  y_col \o " vs " \o x_col, "scatter",
                  [x_axis |-> x_col, y_axis |-> y_col],
                  "Este gráfico de dispersión revela la relación entre " \o x_col
                    \o " e " \o y_col
                    \o ", ayudando a identificar correlaciones o patrones entre estas variables numéricas.") >>
    ELSE <<>>

\* Rule 5 taking the first numeric column instead of the last.
ExtraBarRuleFirstNumeric(numeric_cols, categorical_cols, recommendations) ==
    IF Len(numeric_cols) > 1 /\ Len(categorical_cols) > 0
    THEN LET cat_col == categorical_cols[1]
             num_col == numeric_cols[1]
         IN  IF ~ \E i \in 1..Len(recommendations) :
                      /\ DictGet(recommendations[i].parameters, "x_axis", None) = cat_col
                      /\ DictGet(recommendations[i].parameters, "y_axis", None) = num_col
             THEN << Recommendation(
                      "Comparación de " \o num_col \o " por " \o cat_col, "bar",
                      [x_axis |-> cat_col, y_axis |-> num_col],
                      "Esta visualización compara valores de " \o num_col
                        \o " en diferentes grupos de " \o cat_col
                        \o ", mostrando variaciones e identificando los principales.") >>
             ELSE <<>>
    ELSE <<>>

\* Rule 5: a further bar chart of the last numeric column by the first
\* categorical one, unless a recommendation on that pair of axes exists.
ExtraBarRule(numeric_cols, categorical_cols, recommendations) ==
    IF Len(numeric_cols) > 1 /\ Len(categorical_cols) > 0
    THEN LET cat_col == categorical_cols[1]
             num_col == numeric_cols[Len(numeric_cols)]
         IN  IF ~ \E i \in 1..Len(recommendations) :
                      /\ DictGet(recommendations[i].parameters, "x_axis", None) = cat_col
                      /\ DictGet(recommendations[i].parameters, "y_axis", None) = num_col
             THEN << Recommendation(
                      "Comparación de " \o num_col \o " por " \o cat_col, "bar",
                      [x_axis |-> cat_col, y_axis |-> num_col],
                      "Esta visualización compara valores de " \o num_col
                        \o " en diferentes grupos de " \o cat_col
                        \o ", mostrando variaciones e identificando los principales.") >>
             ELSE <<>>
    ELSE <<>>

\* The generic bar chart of the first two columns by position.
BasicFallback(columns) ==
    << Recommendation(
         columns[1] \o " vs " \o columns[2], "bar",
         [x_axis |-> columns[1], y_axis |-> columns[2]],
         "Gráfico de barras mostrando la relación entre las primeras dos columnas de tu conjunto de datos.") >>

\* The typed rules with the pie chart placed before the line chart.
TypedRulesPieFirst(df_summary) ==
    LET column_types == DictGet(df_summary, "column_types", <<>>)
        numeric_cols == ColsOfType(column_types, "numeric")
        categorical_cols == ColsOfType(column_types, "categorical")
        datetime_cols == ColsOfType(column_types, "datetime")
        upto4 == BarRule(numeric_cols, categorical_cols)
                   \o PieRule(numeric_cols, categorical_cols)
                   \o LineRule(numeric_cols, datetime_cols)
                   \o ScatterRule(numeric_cols)
    IN  upto4 \o ExtraBarRule(numeric_cols, categorical_cols, upto4)

\* The typed rules in their order, before the fallback and the cap.
TypedRules(df_summary) ==
    LET column_types == DictGet(df_summary, "column_types", <<>>)
        numeric_cols == ColsOfType(column_types, "numeric")
        categorical_cols == ColsOfType(column_types, "categorical")
        datetime_cols == ColsOfType(column_types, "datetime")
        upto4 == BarRule(numeric_cols, categorical_cols)
                   \o LineRule(numeric_cols, datetime_cols)
                   \o PieRule(numeric_cols, categorical_cols)
                   \o ScatterRule(numeric_cols)
    IN  upto4 \o ExtraBarRule(numeric_cols, categorical_cols, upto4)

\* recommendations[:5]
FirstFive(recommendations) ==
    SubSeq(recommendations, 1, IF Len(recommendations) < 5 THEN Len(recommendations) ELSE 5)

\* The heuristic where the generic bar chart is never added.
GenerateRecommendationsNoFallback(df_summary) == FirstFive(TypedRules(df_summary))

GenerateRecommendations(df_summary) ==
    LET columns == DictGet(df_summary, "columns", <<>>)
        recommendations == TypedRules(df_summary)
    IN  FirstFive(IF Len(recommendations) = 0 /\ Len(columns) >= 2
                  THEN recommendations \o BasicFallback(columns)
                  ELSE recommendations)

(***************************************************************************)
(* The orchestrator, AIAnalysisService, and the client of the external     *)
(* service, OpenAILLMClient.                                               *)
(*                                                                         *)
(* The process environment holds USE_MOCK_RECOMMENDATIONS and LLM_API_KEY, *)
(* each unset (None) or a string.                                          *)
(***************************************************************************)
MaxBatch == 2

Envs ==
    [USE_MOCK_RECOMMENDATIONS : {None, "true", "True", "false"},
     LLM_API_KEY : {None, "", "sk-key"}]

\* The environment with neither variable set.
NoEnv == [USE_MOCK_RECOMMENDATIONS |-> None, LLM_API_KEY |-> None]

\* os.getenv(name, default)
GetEnv(env, name, default) == IF env[name] = None THEN default ELSE env[name]

\* str.lower() on the strings of the model.
Lower(s) ==
    CASE s = "True" -> "true"
      [] s = "CSV"  -> "csv"
      [] s = "XLS"  -> "xls"
      [] s = "Json" -> "json"
      [] OTHER      -> s

\* bool(s) of an optional string.
Truthy(s) == s # None /\ s # ""

NoClient == [kind |-> "none"]

\* OpenAILLMClient(api_key): the key given, or else the one of the environment.
OpenAILLMClient(api_key, env) ==
    [kind |-> "openai",
     api_key |-> IF Truthy(api_key) THEN api_key ELSE GetEnv(env, "LLM_API_KEY", "")]

\* Another implementation of LLMClient, such as a test double.
OtherLLMClient == [kind |-> "other"]

\* The clients a caller can inject (NoClient: none injected).
InjectedClients ==
    {NoClient, OtherLLMClient} \cup {OpenAILLMClient(k, NoEnv) : k \in {None, "sk-key"}}

\* The mode of a service that falls back only when both conditions hold.
UseMockBoth(env) ==
    /\ Lower(GetEnv(env, "USE_MOCK_RECOMMENDATIONS", "false")) = "true"
    /\ ~Truthy(env.LLM_API_KEY)

\* self.use_mock = use_mock_env or not has_api_key
UseMock(env) ==
    \/ Lower(GetEnv(env, "USE_MOCK_RECOMMENDATIONS", "false")) = "true"
    \/ ~Truthy(env.LLM_API_KEY)

\* AIAnalysisService(llm_client) constructed under the environment env.
AIAnalysisService(llm_client, env) ==
    [llm_client   |-> IF llm_client = NoClient THEN OpenAILLMClient(None, env)
                      ELSE llm_client,
     use_mock     |-> UseMock(env),
     use_mock_env |-> Lower(GetEnv(env, "USE_MOCK_RECOMMENDATIONS", "false")) = "true",
     has_api_key  |-> Truthy(env.LLM_API_KEY)]

NotConstructed == [llm_client |-> NoClient]

(***************************************************************************)
(* What the external service sends back.  A JSON value is tagged with its  *)
(* Python type after json.loads: list, dict or int.                        *)
(***************************************************************************)
JArr(elems) == [j |-> "list", v |-> elems]

JObj(fields) == [j |-> "dict", v |-> fields]

JNum(n) == [j |-> "int", v |-> n]

\* Text that is not JSON.
NotJson == [j |-> "invalid"]

RequiredKeys == {"title", "chart_type", "parameters", "insight"}

FullEntry ==
    JObj([title |-> "Ventas por mes", chart_type |-> "line",
          parameters |-> [x_axis |-> "c1", y_axis |-> "c2"],
          insight |-> "Tendencia mensual"])

\* An entry without 'insight'.
ShortEntry ==
    JObj([title |-> "Ventas por mes", chart_type |-> "line",
          parameters |-> [x_axis |-> "c1", y_axis |-> "c2"]])

\* An entry with a fifth key.
LongEntry ==
    JObj([title |-> "Ventas por mes", chart_type |-> "line",
          parameters |-> [x_axis |-> "c1", y_axis |-> "c2"],
          insight |-> "Tendencia mensual", confidence |-> "alta"])

Entries == {FullEntry, ShortEntry, LongEntry, JNum(7)}

Batches == SeqsUpTo(Entries, MaxBatch)

\* A batch longer than the heuristic's lists: six entries with the
\* required keys.
LargeBatch == <<FullEntry, FullEntry, LongEntry, FullEntry, FullEntry, LongEntry>>

\* The documents the service may answer with: an array of entries, an
\* object holding the array under 'recommendations' (or holding a number
\* there), a single entry, a number, or no JSON at all.
Documents ==
    {JArr(b) : b \in Batches \cup {LargeBatch}}
      \cup {JObj([recommendations |-> JArr(b)]) : b \in {<<FullEntry>>, <<ShortEntry>>}}
      \cup {JObj([recommendations |-> JNum(7)]), FullEntry, ShortEntry, JNum(7), NotJson}

\* A piece of the content between two ``` marks: the word that follows the
\* opening mark (a language tag, or nothing) and the document after it.
Segment(tag, doc) == [tag |-> tag, doc |-> doc]

EmptySegment == [tag |-> "", doc |-> [j |-> "empty"]]

\* The message content, as the pieces content.split("```") yields: bare,
\* or in a code block without or with the language tag json.
Content(segments) == [is_none |-> FALSE, segments |-> segments]

\* A message whose content is null.
NoneContent == [is_none |-> TRUE, segments |-> <<>>]

Contents ==
    {Content(<<Segment("", d)>>) : d \in Documents}
      \cup {Content(<<EmptySegment, Segment(t, d), EmptySegment>>) :
              t \in {"", "json"}, d \in Documents}
      \cup {NoneContent}

\* How the HTTP exchange ends: an exception of requests, a body that is not
\* JSON, a body without choices[0].message.content, or a content.
Replies ==
    {[kind |-> k] : k \in {"Timeout", "ConnectionError", "HTTPError",
                            "InvalidBody", "NoChoices"}}
      \cup {[kind |-> "content", content |-> c] : c \in Contents}

\* _make_api_call before the request: without a key nothing is sent.
HasKey(llm_client) == llm_client.api_key # ""

\* _make_api_call after the request: the content, or the error raised.
MakeApiCall(reply) ==
    CASE reply.kind \in {"Timeout", "ConnectionError", "HTTPError"} ->
           Raised("LLMClientError", "_make_api_call")
      [] reply.kind = "InvalidBody" ->
           Raised("JSONDecodeError", "_make_api_call")
      [] reply.kind = "NoChoices" ->
           Raised("LLMClientError", "_make_api_call")
      [] OTHER -> Ok(reply.content)

\* json.loads on one piece of text.
JsonLoads(segment) ==
    IF segment.tag = "" /\ segment.doc.j \in {"list", "dict", "int"}
    THEN Ok(segment.doc)
    ELSE Raised("JSONDecodeError", "json.loads")

ParseRecommendations(content) ==
    IF content.is_none THEN Raised("AttributeError", "_parse_recommendations")
    ELSE LET segments == content.segments
             text == IF Len(segments) > 1 /\ segments[1] = EmptySegment
                     THEN segments[2] ELSE segments[1]
             parsed == JsonLoads(text)
         IN  IF parsed.status # "ok"
             THEN Raised("LLMClientError", "_parse_recommendations")
             ELSE IF parsed.payload.j = "list" THEN Ok(parsed.payload)
             ELSE IF /\ parsed.payload.j = "dict"
                     /\ "recommendations" \in DOMAIN parsed.payload.v
                  THEN Ok(parsed.payload.v.recommendations)
             ELSE Ok(JArr(<<parsed.payload>>))

\* required.issubset(rec) for one entry: the error it raises, or "none".
EntryError(rec) ==
    IF rec.j # "dict" THEN "TypeError"
    ELSE IF RequiredKeys \subseteq DOMAIN rec.v THEN "none"
    ELSE "LLMClientError"

ValidateRecommendations(recommendations) ==
    IF recommendations.j # "list"
    THEN Raised("TypeError", "_validate_recommendations")
    ELSE LET bad == {i \in 1..Len(recommendations.v) :
                       EntryError(recommendations.v[i]) # "none"}
         IN  IF bad = {} THEN Ok(recommendations)
             ELSE LET first == CHOOSE i \in bad : \A k \in bad : i <= k
                  IN  Raised(EntryError(recommendations.v[first]),
                             "_validate_recommendations")

\* OpenAILLMClient.recommend once the exchange has ended: every exception
\* leaves as LLMClientError.
Recommend(reply) ==
    LET response == MakeApiCall(reply)
        parsed == IF response.status = "ok"
                  THEN ParseRecommendations(response.payload) ELSE response
        checked == IF parsed.status = "ok"
                   THEN ValidateRecommendations(parsed.payload) ELSE parsed
    IN  IF checked.status = "ok" THEN checked
        ELSE Raised("LLMClientError", "recommend")

\* What another client's recommend may do: return a batch, or raise.
OtherClientOutcomes ==
    {Ok(JArr(b)) : b \in Batches}
      \cup {Raised("LLMClientError", "recommend"), Raised("RuntimeError", "recommend")}

\* The handlers that let the client's error through.
AfterRecommendReraise(outcome, df_summary) ==
    IF outcome.status = "ok" THEN Ok(outcome.payload.v) ELSE outcome

\* recommend_chart_types that cuts the batch of the client as the heuristic
\* cuts its own list.
AfterRecommendFirstFive(outcome, df_summary) ==
    IF outcome.status = "ok" THEN Ok(FirstFive(outcome.payload.v))
    ELSE Ok(GenerateRecommendations(df_summary))

\* recommend_chart_types after self.llm_client.recommend: the batch, or on
\* LLMClientError and on any other Exception the heuristic's list.
AfterRecommend(outcome, df_summary) ==
    IF outcome.status = "ok" THEN Ok(outcome.payload.v)
    ELSE Ok(GenerateRecommendations(df_summary))

(***************************************************************************)
(* The profiler, DataFrameService.get_dataframe_summary.                   *)
(*                                                                         *)
(* A frame is the sequence of its columns, each with its name, its dtype   *)
(* and its cells (scalars or missing), all of one length.  Of the summary  *)
(* the model keeps columns, dtypes, shape, null_counts, null_percentages,  *)
(* sample_data and column_types; describe, info and memory_usage are left  *)
(* out (statistics and text that nothing below reads and that do not       *)
(* raise on these frames).                                                 *)
(***************************************************************************)
MaxSummaryRows == 3

SummaryColumnNames == <<"c1", "c2">>

Dtypes == {"float64", "datetime64[ns]", "object", "timedelta64[ns]"}

\* The values a column of the dtype holds, besides the missing one (two
\* for an object column, whose distinct values are counted).
CellsOf(dtype) ==
    CASE dtype = "float64" -> {FloatCell(5, 1)}
      [] dtype = "object" -> {StrCell("N"), StrCell("S")}
      [] dtype = "datetime64[ns]" -> {[k |-> "timestamp", day |-> 1]}
      [] OTHER -> {[k |-> "timedelta", days |-> 1]}

\* The columns of one name with r cells.
ColumnsOf(name, r) ==
    UNION { [name : {name}, dtype : {d}, cells : [1..r -> CellsOf(d) \cup {Null}]] :
              d \in Dtypes }

\* The frames of one or two columns and r rows.
FramesOf(r) ==
    {<<a>> : a \in ColumnsOf(SummaryColumnNames[1], r)}
      \cup {<<a, b>> : a \in ColumnsOf(SummaryColumnNames[1], r),
                       b \in ColumnsOf(SummaryColumnNames[2], r)}

\* The frames a caller can pass: 1 or 2 columns of 0 to MaxSummaryRows
\* rows, and the frame without columns (which has no rows).
Frames == UNION { FramesOf(r) : r \in 0..MaxSummaryRows } \cup {<<>>}

\* len(df)
RowCount(df) == IF Len(df) = 0 THEN 0 ELSE Len(df[1].cells)

\* pd.api.types.is_numeric_dtype
IsNumericDtype(dtype) == dtype \in {"int64", "float64", "bool"}

\* pd.api.types.is_datetime64_any_dtype
IsDatetime64AnyDtype(dtype) == dtype = "datetime64[ns]"

\* df[col].isnull().sum()
NullCount(column) == Cardinality({i \in 1..Len(column.cells) : column.cells[i] = Null})

\* df[col].nunique(): the distinct values, the missing one left out.
Nunique(column) == Cardinality(Range(column.cells) \ {Null})

\* One column's classification where a ratio of exactly 0.5 still counts
\* as categorical.
ClassifyColumnInclusive(column, rows) ==
    IF IsNumericDtype(column.dtype) THEN Ok("numeric")
    ELSE IF IsDatetime64AnyDtype(column.dtype) THEN Ok("datetime")
    ELSE IF column.dtype = "object"
         THEN IF rows = 0 THEN Raised("ZeroDivisionError", "_classify_columns")
              ELSE IF 2 * Nunique(column) <= rows THEN Ok("categorical")
              ELSE Ok("text")
    ELSE Ok("other")

\* One pass of the loop of _classify_columns: the classification, or the
\* error of nunique() / len(df) on a frame without rows.  unique_ratio < 0.5
\* is 2 * nunique < len.
ClassifyColumn(column, rows) ==
    IF IsNumericDtype(column.dtype) THEN Ok("numeric")
    ELSE IF IsDatetime64AnyDtype(column.dtype) THEN Ok("datetime")
    ELSE IF column.dtype = "object"
         THEN IF rows = 0 THEN Raised("ZeroDivisionError", "_classify_columns")
              ELSE IF 2 * Nunique(column) < rows THEN Ok("categorical")
              ELSE Ok("text")
    ELSE Ok("other")

ClassifyColumns(df) ==
    LET each == [i \in 1..Len(df) |-> ClassifyColumn(df[i], RowCount(df))]
        failed == {i \in 1..Len(df) : each[i].status # "ok"}
    IN  IF failed # {}
        THEN each[CHOOSE i \in failed : \A k \in failed : i <= k]
        ELSE Ok([i \in 1..Len(df) |-> [col |-> df[i].name, type |-> each[i].payload]])

\* df.isnull().sum() / len(df) * 100 for one column: NaN on a frame without
\* rows (a division of Series, which does not raise).
NullPercentage(column, rows) ==
    IF rows = 0 THEN Null ELSE FloatCell(NullCount(column) * 100, rows)

\* df.head(5).to_dict('records')
SampleData(df) ==
    LET shown == IF RowCount(df) < 5 THEN RowCount(df) ELSE 5
    IN  [r \in 1..shown |-> [i \in 1..Len(df) |-> [col |-> df[i].name, value |-> df[i].cells[r]]]]

GetDataframeSummary(df) ==
    LET column_types == ClassifyColumns(df)
    IN  IF column_types.status # "ok" THEN column_types
        ELSE Ok([columns |-> [i \in 1..Len(df) |-> df[i].name],
                 dtypes |-> [i \in 1..Len(df) |-> [col |-> df[i].name, dtype |-> df[i].dtype]],
                 shape |-> [rows |-> RowCount(df), columns |-> Len(df)],
                 null_counts |->
                     [i \in 1..Len(df) |-> [col |-> df[i].name, count |-> NullCount(df[i])]],
                 null_percentages |->
                     [i \in 1..Len(df) |->
                         [col |-> df[i].name,
                          percentage |-> NullPercentage(df[i], RowCount(df))]],
                 sample_data |-> SampleData(df),
                 column_types |-> column_types.payload])

(***************************************************************************)
(* DataFrameService.load_from_bytes.  A filename is the sequence of the    *)
(* pieces between its dots (filename.split('.')), so a name without a dot  *)
(* has one piece and rsplit('.', 1)[1] is the last piece.  A byte source   *)
(* is an io.BytesIO: its blocks and the position of the next read.  A      *)
(* pandas reader consumes the source from its position to its end.         *)
(***************************************************************************)
MaxPieces == 3

Filenames ==
    SeqsUpTo({"report", "csv", "CSV", "xlsx", "XLS", "xls", "json", "Json", "txt", ""},
             MaxPieces) \ {<<>>}

Blocks == <<"b1", "b2">>

BytesIO(data, pos) == [data |-> data, pos |-> pos, seekable |-> TRUE]

Seek(file_bytes, offset) == [file_bytes EXCEPT !.pos = offset]

\* What is left between the position and the end (a position past the end
\* leaves nothing).
Remaining(file_bytes) == SubSeq(file_bytes.data, file_bytes.pos + 1, Len(file_bytes.data))

\* pd.read_csv / pd.read_excel / pd.read_json on a source: the reader, the
\* bytes it was given, and the source left at its end.
PdRead(reader, file_bytes) ==
    [outcome |-> Ok([reader |-> reader, bytes_read |-> Remaining(file_bytes)]),
     file_bytes |-> Seek(file_bytes, IF file_bytes.pos > Len(file_bytes.data)
                                      THEN file_bytes.pos ELSE Len(file_bytes.data)),
     reads |-> 1]

LoadRaised(message, file_bytes) ==
    [outcome |-> Raised("ValueError", message), file_bytes |-> file_bytes, reads |-> 0]

\* load_from_bytes that hands the source to the reader where it stands.
LoadFromBytesAsIs(file_bytes, filename) ==
    IF Len(filename) = 1
    THEN LoadRaised("Archivo sin extensión", file_bytes)
    ELSE LET file_ext == Lower(filename[Len(filename)])
         IN  CASE file_ext = "csv" -> PdRead("read_csv", file_bytes)
               [] file_ext \in {"xlsx", "xls"} -> PdRead("read_excel", file_bytes)
               [] file_ext = "json" -> PdRead("read_json", file_bytes)
               [] OTHER -> LoadRaised("Tipo de archivo no soportado", file_bytes)

LoadFromBytes(file_bytes, filename) ==
    IF Len(filename) = 1
    THEN LoadRaised("Archivo sin extensión", file_bytes)
    ELSE LET file_ext == Lower(filename[Len(filename)])
             rewound == IF file_bytes.seekable THEN Seek(file_bytes, 0) ELSE file_bytes
         IN  CASE file_ext = "csv" -> PdRead("read_csv", rewound)
               [] file_ext \in {"xlsx", "xls"} -> PdRead("read_excel", rewound)
               [] file_ext = "json" -> PdRead("read_json", rewound)
               [] OTHER -> LoadRaised("Tipo de archivo no soportado", rewound)

(***************************************************************************)
(* The HTTP layer: upload_controller.upload_file and                       *)
(* chart_controller.get_chart_data over ChartService, in a deployment      *)
(* without LLM_API_KEY (recommend_chart_types is the heuristic).  The      *)
(* session is the mapping the framework keeps for each client between its  *)
(* requests; a handler reads and writes the session of its request's       *)
(* client.                                                                 *)
(***************************************************************************)
MaxSessions == 2

Clients == 1..MaxSessions

\* The table of the scenarios: region/sales rows (N,10), (S,20), (N,5).
ScenarioTable ==
    << [region |-> StrCell("N"), sales |-> IntCell(10)],
       [region |-> StrCell("S"), sales |-> IntCell(20)],
       [region |-> StrCell("N"), sales |-> IntCell(5)] >>

\* The first block of a data file is its header line, the second its rows.
HeaderLine == SubSeq(Blocks, 1, 1)

\* The frame a pandas reader builds from the bytes it was given: the
\* scenario table from a whole file, a frame without rows from a header
\* alone, EmptyDataError (a ValueError) from nothing.
ReadTable(parsed) ==
    CASE parsed.bytes_read = Blocks -> Ok(ScenarioTable)
      [] parsed.bytes_read = HeaderLine -> Ok(<<>>)
      [] parsed.bytes_read = <<>> -> Raised("ValueError", "pandas")

\* The same frame as the profiler reads it, column by column (the columns
\* of a frame without rows have dtype object).
AsFrame(df) ==
    << [name |-> "region", dtype |-> "object",
        cells |-> [i \in 1..Len(df) |-> df[i].region]],
       [name |-> "sales", dtype |-> IF Len(df) = 0 THEN "object" ELSE "int64",
        cells |-> [i \in 1..Len(df) |-> df[i].sales]] >>

\* df = self.df_service.load_from_bytes(file_bytes, filename)
LoadedFromBytes(file_bytes, filename) ==
    LET load == LoadFromBytes(file_bytes, filename)
    IN  IF load.outcome.status = "ok" THEN ReadTable(load.outcome.payload)
        ELSE load.outcome

\* The files at the paths a request can name: one CSV file of the scenario
\* table.
StoredPath == <<"sales", "csv">>

\* DataFrameService.load_from_file
LoadFromFile(filepath) ==
    IF Len(filepath) = 1 THEN Raised("IndexError", "load_from_file")
    ELSE LET file_ext == Lower(filepath[Len(filepath)])
         IN  IF file_ext \in {"csv", "xlsx", "xls", "json"}
             THEN IF filepath = StoredPath
                  THEN ReadTable([reader |-> "read_csv", bytes_read |-> Blocks])
                  ELSE Raised("FileNotFoundError", "pandas")
             ELSE Raised("ValueError", "Tipo de archivo no soportado")

\* ChartService.recommend_chart_file
RecommendChartFile(file_bytes, filename) ==
    LET df == LoadedFromBytes(file_bytes, filename)
    IN  IF df.status # "ok" THEN df
        ELSE LET df_summary == GetDataframeSummary(AsFrame(df.payload))
             IN  IF df_summary.status # "ok" THEN df_summary
                 ELSE Ok([recommendations |-> GenerateRecommendations(df_summary.payload),
                          data_summary |->
                              [shape |-> df_summary.payload.shape,
                               columns |-> df_summary.payload.columns,
                               column_types |-> df_summary.payload.column_types]])

\* JSON null, and Python's truth value of a parsed JSON value.
JNull == [j |-> "null"]

Falsy(value) == value.j = "null" \/ (value.j \in {"list", "dict"} /\ value.v = <<>>)

\* The chart request of a service call whose checks have passed.
ChartRequest(chart_type, parameters, aggregation) ==
    [chart_type |-> chart_type,
     x_axis |-> DictGet(parameters.v, "x_axis", None),
     y_axis |-> DictGet(parameters.v, "y_axis", None),
     aggregation |-> aggregation]

\* The checks both service entry points make before loading.
ChartArgumentsError(chart_type, parameters) ==
    IF chart_type \in {None, ""} THEN Raised("ValueError", "chart_type es requerido")
    ELSE IF Falsy(parameters) THEN Raised("ValueError", "parameters son requeridos")
    ELSE IF chart_type \notin ValidTypes THEN Raised("ValueError", "chart_type inválido")
    ELSE IF DictGet(parameters.v, "x_axis", None) \in {None, ""}
         THEN Raised("ValueError", "x_axis es requerido en parameters")
    ELSE Ok(None)

\* ChartService.get_chart_data_bytes, the whole call (a BytesIO is never
\* falsy).
ChartServiceGetChartDataBytes(file_bytes, filename, chart_type, parameters, aggregation) ==
    IF filename = <<"">> THEN Raised("ValueError", "filename es requerido")
    ELSE LET checked == ChartArgumentsError(chart_type, parameters)
             df == LoadedFromBytes(file_bytes, filename)
         IN  IF checked.status # "ok" THEN checked
             ELSE IF df.status # "ok" THEN df
             ELSE GetChartDataBytes(df.payload, ChartRequest(chart_type, parameters, aggregation))

\* ChartService.get_chart_data, the whole call.
ChartServiceGetChartData(filepath, chart_type, parameters, aggregation) ==
    IF filepath \in {<<>>, <<"">>} THEN Raised("ValueError", "filepath es requerido")
    ELSE LET checked == ChartArgumentsError(chart_type, parameters)
             df == LoadFromFile(filepath)
         IN  IF checked.status # "ok" THEN checked
             ELSE IF df.status # "ok" THEN df
             ELSE GetChartDataBytes(df.payload, ChartRequest(chart_type, parameters, aggregation))

\* werkzeug's FileStorage: the filename sent and the stream of the part.
FileStorage(name, data) == [filename |-> name, stream |-> BytesIO(data, 0)]

\* file.read() after file.seek(0)
ReadAll(file) == Remaining(Seek(file.stream, 0))

MaxFileSize == 10 * 1024 * 1024

\* validators.validate_file (a FileStorage is falsy when its filename is
\* empty).
ValidateFile(file) ==
    IF file.filename = <<"">> THEN Raised("ValueError", "El archivo es requerido")
    ELSE LET file_size == Len(file.stream.data)
         IN  IF file_size > MaxFileSize
             THEN Raised("ValueError", "El tamaño del archivo excede el máximo permitido")
             ELSE IF file_size = 0 THEN Raised("ValueError", "El archivo está vacío")
             ELSE Ok(None)

\* jsonify(body), status
Response(status, body) == [kind |-> "response", status |-> status, body |-> body]

ErrorBody(error) == [error |-> error]

\* A session without keys, and the two keys upload_file sets.
EmptySession == <<>>

StoredSession(file_bytes, filename) ==
    [uploaded_file |-> file_bytes, uploaded_filename |-> filename]

\* The except clauses that close upload_file.
UploadErrorResponse(raised) ==
    CASE raised.exc = "ValueError" -> Response(400, ErrorBody("Error de validación"))
      [] raised.exc = "FileNotFoundError" -> Response(404, ErrorBody("Error al procesar archivo"))
      [] OTHER -> Response(500, ErrorBody("Error interno del servidor"))

\* upload_file that writes the session before it asks for recommendations.
UploadFileStoreFirst(http, session) ==
    IF "file" \notin DOMAIN http.files
    THEN [response |-> Response(400, ErrorBody("No se proporcionó archivo")), session |-> session]
    ELSE LET file == http.files.file
             valid == ValidateFile(file)
             file_bytes == BytesIO(ReadAll(file), 0)
             recommendations_result == RecommendChartFile(file_bytes, file.filename)
         IN  IF file.filename = <<"">>
             THEN [response |-> Response(400, ErrorBody("No se seleccionó archivo")),
                   session |-> session]
             ELSE IF valid.status # "ok"
             THEN [response |-> Response(400, ErrorBody("Error de validación")),
                   session |-> session]
             ELSE IF recommendations_result.status # "ok"
             THEN [response |-> UploadErrorResponse(recommendations_result),
                   session |-> StoredSession(file_bytes, file.filename)]
             ELSE [response |->
                       Response(200,
                           [status |-> "success",
                            file_info |-> [filename |-> file.filename,
                                           size |-> Len(file.stream.data)],
                            recommendations |-> recommendations_result.payload.recommendations,
                            data_summary |-> recommendations_result.payload.data_summary]),
                   session |-> StoredSession(file_bytes, file.filename)]

\* upload_file: the response and the session it leaves.
UploadFile(http, session) ==
    IF "file" \notin DOMAIN http.files
    THEN [response |-> Response(400, ErrorBody("No se proporcionó archivo")), session |-> session]
    ELSE LET file == http.files.file
             valid == ValidateFile(file)
             file_bytes == BytesIO(ReadAll(file), 0)
             recommendations_result == RecommendChartFile(file_bytes, file.filename)
         IN  IF file.filename = <<"">>
             THEN [response |-> Response(400, ErrorBody("No se seleccionó archivo")),
                   session |-> session]
             ELSE IF valid.status # "ok"
             THEN [response |-> Response(400, ErrorBody("Error de validación")),
                   session |-> session]
             ELSE IF recommendations_result.status # "ok"
             THEN [response |-> UploadErrorResponse(recommendations_result),
                   session |-> session]
             ELSE [response |->
                       Response(200,
                           [status |-> "success",
                            file_info |-> [filename |-> file.filename,
                                           size |-> Len(file.stream.data)],
                            recommendations |-> recommendations_result.payload.recommendations,
                            data_summary |-> recommendations_result.payload.data_summary]),
                   session |-> StoredSession(file_bytes, file.filename)]

\* get_chart_data, the branch of a request with a 'file' part.
GetChartDataMultipart(http) ==
    LET file == http.files.file
        chart_type == DictGet(http.form, "chart_type", None)
        parameters_json == DictGet(http.form, "parameters", EmptySegment)
        aggregation == DictGet(http.form, "aggregation", "sum")
        parameters == JsonLoads(parameters_json)
        chart_data == ChartServiceGetChartDataBytes(BytesIO(ReadAll(file), 0), file.filename,
                          chart_type, parameters.payload, aggregation)
    IN  IF file.filename = <<"">> THEN Response(400, ErrorBody("Archivo requerido"))
        ELSE IF chart_type \in {None, ""} \/ parameters_json = EmptySegment
        THEN Response(400, ErrorBody("Campo requerido faltante"))
        ELSE IF parameters.status # "ok" THEN Response(400, ErrorBody("JSON inválido"))
        ELSE IF parameters.payload.j # "dict"
        THEN Response(400, ErrorBody("Parámetros inválidos"))
        ELSE IF "x_axis" \notin DOMAIN parameters.payload.v
        THEN Response(400, ErrorBody("Parámetro faltante"))
        ELSE IF chart_type \notin ValidTypes THEN Response(400, ErrorBody("chart_type inválido"))
        ELSE IF chart_data.status # "ok"
        THEN Response(500, ErrorBody("Error interno del servidor"))
        ELSE Response(200, chart_data.payload)

\* get_chart_data, the branch of a request without a 'file' part: the JSON
\* body names a filepath.
GetChartDataJson(http) ==
    LET data == http.json
        filepath == DictGet(data, "filepath", <<>>)
        chart_type == DictGet(data, "chart_type", None)
        parameters == DictGet(data, "parameters", JNull)
        aggregation == DictGet(data, "aggregation", "sum")
        chart_data == ChartServiceGetChartData(filepath, chart_type, parameters, aggregation)
    IN  IF data = <<>> THEN Response(400, ErrorBody("No se proporcionaron datos"))
        ELSE IF filepath \in {<<>>, <<"">>} \/ chart_type \in {None, ""} \/ Falsy(parameters)
        THEN Response(400, ErrorBody("Campo requerido faltante"))
        ELSE IF chart_type \notin ValidTypes THEN Response(400, ErrorBody("chart_type inválido"))
        ELSE IF parameters.j # "dict" THEN Response(400, ErrorBody("Parámetros inválidos"))
        ELSE IF "x_axis" \notin DOMAIN parameters.v
        THEN Response(400, ErrorBody("Parámetro faltante"))
        ELSE IF chart_data.status # "ok"
        THEN IF chart_data.exc = "FileNotFoundError"
             THEN Response(404, ErrorBody("Archivo no disponible"))
             ELSE Response(500, ErrorBody("Error interno del servidor"))
        ELSE Response(200, chart_data.payload)

\* get_chart_data: the session of the client is neither read nor written.
GetChartData(http, session) ==
    IF "file" \in DOMAIN http.files THEN GetChartDataMultipart(http)
    ELSE GetChartDataJson(http)

(***************************************************************************)
(* The state: the loaded table, the request and the entry point it came    *)
(* through, the outcome of the last call, and whether that call was a      *)
(* repetition of the one before it; the byte source and the filename a     *)
(* caller hands to the loader; the session of every client, the HTTP       *)
(* request being answered and its response.                                *)
(***************************************************************************)
VARIABLES df, req, entry, result, repeated, df_summary, env, service, pc, wire,
          file_bytes, filename, sessions, request, response

vars == <<df, req, entry, result, repeated, df_summary, env, service, pc, wire,
          file_bytes, filename, sessions, request, response>>

\* The arguments of a load_from_bytes call.
loadVars == <<file_bytes, filename>>

\* The HTTP layer.
webVars == <<sessions, request, response>>

\* The orchestrator: the process environment, the AIAnalysisService
\* instance, where a recommend_chart_types call stands ("idle", "waiting"
\* for the client, "returned"), and the traffic of that call.
orchVars == <<env, service, pc, wire>>

\* What a call of the aggregation engine leaves alone: the state of the
\* other components.
others == <<df_summary, orchVars, loadVars, webVars>>

\* The traffic of a call that has not reached the client: the calls of
\* llm_client.recommend and the HTTP requests made during the call, whether
\* the client is still busy, the reply to the request and what recommend
\* ended with.
QuietWire ==
    [recommend_calls |-> 0, posts |-> 0, pending |-> FALSE,
     reply |-> [kind |-> "none"], outcome |-> NoResult]

OrchIdle ==
    /\ env = NoEnv
    /\ service = NotConstructed
    /\ pc = "idle"
    /\ wire = QuietWire

\* No load_from_bytes call and no HTTP traffic.
NoHttp == [kind |-> "none"]

LoadIdle == file_bytes = <<>> /\ filename = <<>>

WebIdle == sessions = <<>> /\ request = NoHttp /\ response = NoHttp

\* The summary before any table was profiled: a dict without keys.
NoSummary == <<>>

Init ==
    /\ df \in Tables \cup {ScenarioTable}
    /\ req \in Requests
    /\ entry = "none"
    /\ result = NoResult
    /\ repeated = FALSE
    /\ df_summary = NoSummary
    /\ OrchIdle
    /\ LoadIdle
    /\ WebIdle

\* The call with dropna(inplace=True) on the caller's frame.
CallGetAggregatedDataInPlace ==
    /\ entry \in {"none", "engine"}
    /\ ~repeated
    /\ df' = SelectSeq(df, LAMBDA r : r.region # Null /\ r.sales # Null)
    /\ result' = GetAggregatedData(df', req.x_axis, req.y_axis, req.chart_type, req.aggregation)
    /\ entry' = "engine"
    /\ repeated' = (entry = "engine")
    /\ UNCHANGED <<req, others>>

\* A caller invokes DataFrameService.get_aggregated_data on the table; the
\* same call may be made a second time.
CallGetAggregatedData ==
    /\ entry \in {"none", "engine"}
    /\ ~repeated
    /\ result' = GetAggregatedData(df, req.x_axis, req.y_axis, req.chart_type, req.aggregation)
    /\ entry' = "engine"
    /\ repeated' = (entry = "engine")
    /\ UNCHANGED <<df, req, others>>

\* A caller invokes ChartService.get_chart_data_bytes on the table; the same
\* call may be made a second time.
CallGetChartDataBytes ==
    /\ entry \in {"none", "service"}
    /\ ~repeated
    /\ result' = GetChartDataBytes(df, req)
    /\ entry' = "service"
    /\ repeated' = (entry = "service")
    /\ UNCHANGED <<df, req, others>>

Next == CallGetAggregatedData \/ CallGetChartDataBytes

Spec == Init /\ [][Next]_vars

(***************************************************************************)
(* What the properties below speak of: the call that was made, its payload *)
(* and, computed from the rows of the table alone, the groups and the      *)
(* aggregates the payload is compared with.                                *)
(***************************************************************************)
Called == entry # "none"

Succeeded == Called /\ result.status = "ok"

Payload == IF entry = "service" THEN result.payload.data ELSE result.payload

IsBarLine == req.chart_type \in {"bar", "line"}

KnownX == req.x_axis \in Columns

NumericY == req.y_axis = "sales"

\* The cells of the x_axis column, the distinct values among them that are
\* present, and the rows of one of these values.
XCells == Column(df, req.x_axis)

DistinctX == Range(XCells) \ {Null}

RowsOfKey(key) == {i \in 1..Len(df) : XCells[i] = key}

PresentRows(key, col) == {i \in RowsOfKey(key) : df[i][col] # Null}

RECURSIVE SumOfRows(_, _)
SumOfRows(S, col) ==
    IF S = {} THEN 0
    ELSE LET i == CHOOSE i \in S : TRUE
         IN  df[i][col].n + SumOfRows(S \ {i}, col)

\* v is the aggregate fn of the numeric column col over the rows whose x_axis
\* is key (fn = count: the number of these rows).
IsAggregateOf(v, key, col, fn) ==
    LET P == PresentRows(key, col)
    IN  CASE fn = "count" -> IsNum(v) /\ v.d = 1 /\ v.n = Cardinality(RowsOfKey(key))
          [] fn = "sum"   -> IsNum(v) /\ v.d = 1 /\ v.n = SumOfRows(P, col)
          [] fn = "mean"  -> IF P = {} THEN v = Null
                             ELSE IsNum(v) /\ v.n * Cardinality(P) = SumOfRows(P, col) * v.d
          [] fn = "max"   -> IF P = {} THEN v = Null
                             ELSE /\ IsNum(v) /\ v.d = 1
                                  /\ \E i \in P : df[i][col].n = v.n
                                  /\ \A i \in P : df[i][col].n <= v.n
          [] fn = "min"   -> IF P = {} THEN v = Null
                             ELSE /\ IsNum(v) /\ v.d = 1
                                  /\ \E i \in P : df[i][col].n = v.n
                                  /\ \A i \in P : df[i][col].n >= v.n

\* labels, values and data have one entry per present x_axis value, the i-th
\* record carrying the i-th key under the x_axis name and the i-th value under vcol.
ParallelPerGroup(p, vcol) ==
    /\ Len(p.labels) = Len(p.data)
    /\ Len(p.values) = Len(p.data)
    /\ Len(p.data) = Cardinality(DistinctX)
    /\ {p.data[i][req.x_axis] : i \in 1..Len(p.data)} = DistinctX
    /\ \A i \in 1..Len(p.data) : p.values[i] = p.data[i][vcol]

(***************************************************************************)
(* C1: for chart kind bar or line, the groups of a returned payload are    *)
(* in ascending order of the x_axis key, not of the value: labels are the  *)
(* stringified keys in that order, values are parallel to labels with      *)
(* values[i] the aggregate of group i, and data holds exactly one record   *)
(* per group, in the same order, with that key and that value.             *)
(***************************************************************************)
C1_BarLineGroupsSortedByKey ==
    (Succeeded /\ IsBarLine) =>
        LET p == Payload
            n == Len(p.data)
        IN  /\ ParallelPerGroup(p, req.y_axis)
            /\ \A i, j \in 1..n :
                   i < j => Less(p.data[i][req.x_axis], p.data[j][req.x_axis])
            /\ \A i \in 1..n : p.labels[i] = AsStr(p.data[i][req.x_axis])
            /\ \A i \in 1..n :
                   (req.aggregation = "count" \/ NumericY) =>
                       IsAggregateOf(p.values[i], p.data[i][req.x_axis], req.y_axis,
                                     BarLineAggFunc(req.aggregation))

\* A bar/line payload of two groups whose key order is neither the row order
\* nor the value order.
C1_Witness ==
    /\ Succeeded /\ IsBarLine
    /\ Len(Payload.labels) = 2
    /\ Less(Payload.values[2], Payload.values[1])
    /\ Payload.labels[2] = AsStr(XCells[1])

(***************************************************************************)
(* C2: for chart kind bar or line with aggregation sum, mean, max or min   *)
(* over a numeric y_axis, the value of each group is that aggregation of   *)
(* the y_axis values of exactly the rows whose x_axis is the group key     *)
(* (the scenario rows (N,10),(S,20),(N,5) with sum give labels [N,S] and   *)
(* values [15,20]), and a group with at least one non-null y_axis value    *)
(* has a finite number as its value, never NaN/None.                       *)
(***************************************************************************)
C2_ValueIsAggregateOfGroup ==
    (Succeeded /\ IsBarLine /\ NumericY /\ req.aggregation \in {"sum", "mean", "max", "min"}) =>
        LET p == Payload
        IN  /\ {p.data[i][req.x_axis] : i \in 1..Len(p.data)} = DistinctX
            /\ \A i \in 1..Len(p.data) :
                   LET key == p.data[i][req.x_axis]
                   IN  /\ IsAggregateOf(p.values[i], key, req.y_axis, req.aggregation)
                       /\ PresentRows(key, req.y_axis) # {} => IsNum(p.values[i])
            /\ (df = ScenarioTable /\ req.x_axis = "region" /\ req.aggregation = "sum") =>
                   /\ p.labels = <<"N", "S">>
                   /\ Len(p.values) = 2
                   /\ NumEq(p.values[1], IntCell(15))
                   /\ NumEq(p.values[2], IntCell(20))

\* The scenario: the sum of sales by region over (N,10), (S,20), (N,5).
C2_Witness ==
    /\ Succeeded
    /\ df = ScenarioTable
    /\ req = [chart_type |-> "bar", x_axis |-> "region", y_axis |-> "sales",
              aggregation |-> "sum"]
    /\ Payload.labels = <<"N", "S">>

(***************************************************************************)
(* C3 (as stated): for chart kind bar with aggregation count, the number   *)
(* of groups of the payload (labels, values, data) equals the number of    *)
(* distinct x_axis values of the table, a null x_axis value of some rows   *)
(* counting as one of them.                                                *)
(***************************************************************************)
C3_Original ==
    (Succeeded /\ req.chart_type = "bar" /\ req.aggregation = "count") =>
        /\ Len(Payload.labels) = Cardinality(Range(XCells))
        /\ Len(Payload.values) = Cardinality(Range(XCells))
        /\ Len(Payload.data) = Cardinality(Range(XCells))

(***************************************************************************)
(* C3 (amended): for chart kind bar with aggregation count, the number of  *)
(* groups of the payload equals the number of distinct non-null x_axis     *)
(* values of the table; the rows whose x_axis is null are in no group.     *)
(***************************************************************************)
C3_GroupCountIsDistinctPresentKeys ==
    (Succeeded /\ req.chart_type = "bar" /\ req.aggregation = "count") =>
        /\ Len(Payload.labels) = Cardinality(DistinctX)
        /\ Len(Payload.values) = Cardinality(DistinctX)
        /\ Len(Payload.data) = Cardinality(DistinctX)
        /\ \A i \in 1..Len(Payload.data) : Payload.data[i][req.x_axis] # Null

\* A count by bar over a table in which some row has a null x_axis and some
\* row has not.
C3_Witness ==
    /\ Succeeded /\ req.chart_type = "bar" /\ req.aggregation = "count"
    /\ Null \in Range(XCells)
    /\ Len(Payload.labels) >= 1

(***************************************************************************)
(* C4 (as stated): for chart kind bar or line with aggregation count,      *)
(* y_axis is not required and is ignored: the call succeeds with y_axis    *)
(* omitted or naming any existing column, with the labels and values of    *)
(* the call that omits y_axis, each value the number of rows of its group. *)
(***************************************************************************)
C4_Original ==
    (Called /\ IsBarLine /\ req.aggregation = "count" /\ KnownX
            /\ req.y_axis \in {None} \cup Columns) =>
        LET omitted == GetAggregatedData(df, req.x_axis, None, req.chart_type, "count")
        IN  /\ Succeeded
            /\ omitted.status = "ok"
            /\ Payload.labels = omitted.payload.labels
            /\ Payload.values = omitted.payload.values
            /\ \A i \in 1..Len(Payload.data) :
                   IsAggregateOf(Payload.values[i], Payload.data[i][req.x_axis],
                                 req.x_axis, "count")

C6_PieWithoutYCountsOccurrences ==
    (Succeeded /\ req.chart_type = "pie" /\ req.y_axis = None) =>
        LET p == Payload
        IN  /\ ParallelPerGroup(p, "value")
            /\ \A i \in 1..Len(p.data) :
                   /\ p.labels[i] = p.data[i][req.x_axis]
                   /\ IsAggregateOf(p.values[i], p.labels[i], req.x_axis, "count")
            /\ (df = ScenarioTable /\ req.x_axis = "region") =>
                   /\ p.labels = <<StrCell("N"), StrCell("S")>>
                   /\ p.values = <<IntCell(2), IntCell(1)>>

\* The scenario: a pie of region without y_axis, aggregation left at sum.
C6_Witness ==
    /\ Succeeded
    /\ df = ScenarioTable
    /\ req = [chart_type |-> "pie", x_axis |-> "region", y_axis |-> None,
              aggregation |-> "sum"]
    /\ Payload.values = <<IntCell(2), IntCell(1)>>

(***************************************************************************)
(* C7: for chart kind pie with y_axis given, the value of each group is    *)
(* the sum or mean of y_axis over the rows of the group when that function *)
(* is requested, and the number of rows of the group, whatever their       *)
(* y_axis cells (nulls included), when count is requested; labels, values  *)
(* and data are parallel, one entry per distinct x_axis value.             *)
(***************************************************************************)
C7_PieWithYAggregatesPerGroup ==
    (Succeeded /\ req.chart_type = "pie" /\ req.y_axis # None) =>
        LET p == Payload
        IN  /\ ParallelPerGroup(p, "value")
            /\ \A i \in 1..Len(p.data) :
                   /\ p.labels[i] = p.data[i][req.x_axis]
                   /\ req.aggregation = "count" =>
                          IsAggregateOf(p.values[i], p.labels[i], req.y_axis, "count")
                   /\ (req.aggregation \in {"sum", "mean"} /\ NumericY) =>
                          IsAggregateOf(p.values[i], p.labels[i], req.y_axis, req.aggregation)

\* A pie count with y_axis given over a group one of whose rows has no y_axis value.
C7_Witness ==
    /\ Succeeded /\ req.chart_type = "pie" /\ req.y_axis = "sales"
    /\ req.aggregation = "count"
    /\ \E i \in 1..Len(Payload.data) :
           /\ PresentRows(Payload.labels[i], "sales") # RowsOfKey(Payload.labels[i])
           /\ Payload.values[i] = IntCell(2)

(***************************************************************************)
(* C8 (as stated): for chart kind scatter with any existing x_axis and     *)
(* y_axis, the same column included, the call succeeds; every row with x   *)
(* or y missing is excluded; data, x_values and y_values have one entry    *)
(* per remaining row, in row order, with data[i] = {x: x_values[i],        *)
(* y: y_values[i]}.                                                        *)
(***************************************************************************)
C8_Original ==
    (Called /\ req.chart_type = "scatter" /\ KnownX /\ req.y_axis \in Columns) =>
        /\ Succeeded
        /\ LET p == Payload
               kept == DropNa(df, req.x_axis, req.y_axis)
           IN  /\ Len(p.data) = Len(kept)
               /\ Len(p.x_values) = Len(kept)
               /\ Len(p.y_values) = Len(kept)
               /\ \A j \in 1..Len(kept) :
                      /\ CellEq(p.x_values[j], df[kept[j]][req.x_axis])
                      /\ CellEq(p.y_values[j], df[kept[j]][req.y_axis])
                      /\ CellEq(p.data[j].x, p.x_values[j])
                      /\ CellEq(p.data[j].y, p.y_values[j])

(***************************************************************************)
(* C9: get_aggregated_data returns no payload and fails with the           *)
(* validation error (ValueError) whenever x_axis is not a column of the    *)
(* table, a given y_axis is not a column of the table, or the chart kind   *)
(* is outside bar, line, pie, scatter; the failure comes before any        *)
(* grouping or aggregation is done.                                        *)
(***************************************************************************)
C9_InvalidRequestRejectedBeforeGrouping ==
    (Called /\ (\/ req.x_axis \notin Columns
                \/ (req.y_axis # None /\ req.y_axis \notin Columns)
                \/ req.chart_type \notin ValidTypes)) =>
        /\ result.status = "raised"
        /\ result.exc = "ValueError"
        /\ result.stage \in {"service", "validate", "dispatch"}

\* The engine itself rejecting a chart kind it does not know, axes in order.
C9_Witness ==
    /\ entry = "engine"
    /\ req.chart_type = "area" /\ KnownX /\ req.y_axis = "sales"
    /\ result = Raised("ValueError", "dispatch")

(***************************************************************************)
(* C10 (as stated): when y_axis is required but omitted (chart kind        *)
(* scatter, or bar/line with an aggregation other than count), the call    *)
(* fails with the validation error of a missing column (ValueError); no    *)
(* other exception type escapes and no payload is returned.                *)
(***************************************************************************)
C10_Original ==
    (Called /\ KnownX /\ req.y_axis = None
            /\ (req.chart_type = "scatter" \/ (IsBarLine /\ req.aggregation # "count"))) =>
        /\ result.status = "raised"
        /\ result.exc = "ValueError"

(***************************************************************************)
(* The heuristic on its own: a caller holds a summary and invokes          *)
(* MockRecommendationService.generate_recommendations on it, once or       *)
(* twice.  The aggregation engine takes no part.                           *)
(***************************************************************************)
\* The chart kind of the request has no aggregation of the requested name.
UnsupportedAggregation ==
    \/ req.chart_type \in {"bar", "line"}
         /\ req.aggregation \notin {"sum", "mean", "count", "max", "min"}
    \/ req.chart_type = "pie" /\ req.y_axis # None
         /\ req.aggregation \notin {"sum", "mean", "count"}

AsSum == [req EXCEPT !.aggregation = "sum"]

NoRequest == <<>>

EngineIdle == df = <<>> /\ req = NoRequest

InitRec ==
    /\ EngineIdle
    /\ df_summary \in Summaries
    /\ entry = "none"
    /\ result = NoResult
    /\ repeated = FALSE
    /\ OrchIdle
    /\ LoadIdle
    /\ WebIdle

\* The call of a service that keeps its list between calls (recommendations
\* held on the instance instead of in a local).
CallGenerateRecommendationsKept ==
    /\ entry \in {"none", "heuristic"}
    /\ ~repeated
    /\ result' = Ok(FirstFive((IF entry = "heuristic" THEN result.payload ELSE <<>>)
                                \o GenerateRecommendations(df_summary)))
    /\ entry' = "heuristic"
    /\ repeated' = (entry = "heuristic")
    /\ UNCHANGED <<df, req, df_summary, orchVars, loadVars, webVars>>

CallGenerateRecommendations ==
    /\ entry \in {"none", "heuristic"}
    /\ ~repeated
    /\ result' = Ok(GenerateRecommendations(df_summary))
    /\ entry' = "heuristic"
    /\ repeated' = (entry = "heuristic")
    /\ UNCHANGED <<df, req, df_summary, orchVars, loadVars, webVars>>

NextRec == CallGenerateRecommendations

SpecRec == InitRec /\ [][NextRec]_vars

(***************************************************************************)
(* What the properties of the heuristic speak of, computed from the        *)
(* summary alone.                                                          *)
(***************************************************************************)
HeuristicReturned == entry = "heuristic" /\ result.status = "ok"

SummaryColumns == DictGet(df_summary, "columns", <<>>)

CountOfType(t) ==
    Cardinality({i \in 1..Len(df_summary.column_types) :
                   df_summary.column_types[i].type = t})

\* One of the five typed rules applies to the summary.
TypedRuleFires ==
    \/ CountOfType("categorical") > 0
    \/ CountOfType("datetime") > 0 /\ CountOfType("numeric") > 0
    \/ CountOfType("numeric") >= 2

C13_Original ==
    entry = "heuristic" =>
        /\ result.status = "ok"
        /\ Len(result.payload) >= 3
        /\ Len(result.payload) <= 5

(***************************************************************************)
(* The orchestrator: an AIAnalysisService is constructed under the         *)
(* environment of the moment, the environment may change afterwards, and   *)
(* recommend_chart_types is called on the summary, any number of times.    *)
(* In external mode the call waits for the client; the exchange ends with  *)
(* one of Replies and the call runs on to its return.                      *)
(***************************************************************************)
OrchSummaries == {s \in Summaries : Len(s.columns) <= 2}

InitOrch ==
    /\ EngineIdle
    /\ df_summary \in OrchSummaries
    /\ entry = "none"
    /\ result = NoResult
    /\ repeated = FALSE
    /\ env \in Envs
    /\ service = NotConstructed
    /\ pc = "idle"
    /\ wire = QuietWire
    /\ LoadIdle
    /\ WebIdle

Construct ==
    /\ service = NotConstructed
    /\ \E llm_client \in InjectedClients : service' = AIAnalysisService(llm_client, env)
    /\ UNCHANGED <<df, req, entry, result, repeated, df_summary, env, pc, wire, loadVars, webVars>>

ChangeEnvironment ==
    /\ service # NotConstructed
    /\ \E e \in Envs \ {env} : env' = e
    /\ UNCHANGED <<df, req, entry, result, repeated, df_summary, service, pc, wire, loadVars, webVars>>

\* recommend_chart_types of a service that reads the environment at each call.
RecommendChartTypesMockLive ==
    /\ service # NotConstructed
    /\ pc \in {"idle", "returned"}
    /\ UseMock(env)
    /\ wire' = QuietWire
    /\ result' = Ok(GenerateRecommendations(df_summary))
    /\ pc' = "returned"
    /\ UNCHANGED <<df, req, entry, repeated, df_summary, env, service, loadVars, webVars>>

\* recommend_chart_types with self.use_mock set.
RecommendChartTypesMock ==
    /\ service # NotConstructed
    /\ pc \in {"idle", "returned"}
    /\ service.use_mock
    /\ wire' = QuietWire
    /\ result' = Ok(GenerateRecommendations(df_summary))
    /\ pc' = "returned"
    /\ UNCHANGED <<df, req, entry, repeated, df_summary, env, service, loadVars, webVars>>

\* recommend_chart_types in external mode, up to the request: a client
\* without a key raises before sending anything, and the call returns the
\* heuristic's list at once.
RecommendChartTypesExternal ==
    /\ service # NotConstructed
    /\ pc \in {"idle", "returned"}
    /\ ~service.use_mock
    /\ IF service.llm_client.kind = "openai" /\ ~HasKey(service.llm_client)
       THEN LET outcome == Raised("LLMClientError", "recommend")
            IN  /\ wire' = [QuietWire EXCEPT !.recommend_calls = 1, !.outcome = outcome]
                /\ result' = AfterRecommend(outcome, df_summary)
                /\ pc' = "returned"
       ELSE /\ wire' = [QuietWire EXCEPT
                          !.recommend_calls = 1,
                          !.posts = IF service.llm_client.kind = "openai" THEN 1 ELSE 0,
                          !.pending = TRUE]
            /\ result' = NoResult
            /\ pc' = "waiting"
    /\ UNCHANGED <<df, req, entry, repeated, df_summary, env, service, loadVars, webVars>>

\* The exchange of a client that sends the request again after a failure.
ExchangeEndsRetry ==
    /\ pc = "waiting"
    /\ service.llm_client.kind = "openai"
    /\ \E reply \in Replies :
         LET outcome == Recommend(reply)
         IN  IF outcome.status # "ok" /\ wire.posts < 3
             THEN /\ wire' = [wire EXCEPT !.posts = @ + 1, !.reply = reply]
                  /\ UNCHANGED <<result, pc>>
             ELSE /\ wire' = [wire EXCEPT !.pending = FALSE, !.reply = reply,
                                          !.outcome = outcome]
                  /\ result' = AfterRecommend(outcome, df_summary)
                  /\ pc' = "returned"
    /\ UNCHANGED <<df, req, entry, repeated, df_summary, env, service, loadVars, webVars>>

\* The HTTP exchange ends (reply, error or timeout); OpenAILLMClient.recommend
\* parses and validates, and recommend_chart_types returns.
ExchangeEnds ==
    /\ pc = "waiting"
    /\ service.llm_client.kind = "openai"
    /\ \E reply \in Replies :
         LET outcome == Recommend(reply)
         IN  /\ wire' = [wire EXCEPT !.pending = FALSE, !.reply = reply,
                                     !.outcome = outcome]
             /\ result' = AfterRecommend(outcome, df_summary)
    /\ pc' = "returned"
    /\ UNCHANGED <<df, req, entry, repeated, df_summary, env, service, loadVars, webVars>>

\* The recommend of another client ends, and recommend_chart_types returns.
OtherClientEnds ==
    /\ pc = "waiting"
    /\ service.llm_client.kind = "other"
    /\ \E outcome \in OtherClientOutcomes :
         /\ wire' = [wire EXCEPT !.pending = FALSE, !.outcome = outcome]
         /\ result' = AfterRecommend(outcome, df_summary)
    /\ pc' = "returned"
    /\ UNCHANGED <<df, req, entry, repeated, df_summary, env, service, loadVars, webVars>>

NextOrch ==
    \/ Construct
    \/ ChangeEnvironment
    \/ RecommendChartTypesMock
    \/ RecommendChartTypesExternal
    \/ ExchangeEnds
    \/ OtherClientEnds

SpecOrch == InitOrch /\ [][NextOrch]_vars

(***************************************************************************)
(* What the properties of the orchestrator speak of.                       *)
(***************************************************************************)
Constructed == service # NotConstructed

\* The fallback was configured, or no credential was, when the service was
\* constructed.
FallbackConfigured == Constructed /\ (service.use_mock_env \/ ~service.has_api_key)

ExternalMode == Constructed /\ ~service.use_mock

HeuristicOutput == Ok(GenerateRecommendations(df_summary))

\* The document the reply carries, when it carries one as JSON text.
ReplyDocument ==
    LET segments == wire.reply.content.segments
    IN  IF Len(segments) > 1 THEN segments[2].doc ELSE segments[1].doc

\* The external call failed in one of the ways listed: transport error or
\* timeout, malformed response, content that is not JSON, an entry without
\* a required field, or any exception out of the client.
ExternalCallFailed ==
    \/ wire.outcome.status = "raised"
    \/ wire.reply.kind \in {"Timeout", "ConnectionError", "HTTPError",
                            "InvalidBody", "NoChoices"}
    \/ /\ wire.reply.kind = "content"
       /\ \/ wire.reply.content.is_none
          \/ ReplyDocument = NotJson
          \/ /\ ReplyDocument.j = "list"
             /\ \E i \in 1..Len(ReplyDocument.v) : ReplyDocument.v[i] = ShortEntry

\* C14: a service constructed with the fallback configured, or without a
\* credential, never calls the client's recommend and never sends a request,
\* and each of its recommend_chart_types calls returns the heuristic's list
\* for the summary.
C14_FallbackMakesNoExternalCall ==
    FallbackConfigured =>
        /\ wire.recommend_calls = 0
        /\ wire.posts = 0
        /\ ~wire.pending
        /\ pc # "waiting"
        /\ (pc = "returned" => result = HeuristicOutput)

C14_Witness ==
    /\ FallbackConfigured
    /\ service.use_mock_env
    /\ service.has_api_key
    /\ pc = "returned"
    /\ Len(result.payload) > 0

\* C15: in external mode, whenever the external call fails, the call of
\* recommend_chart_types raises nothing and returns the heuristic's list for
\* the same summary.
C15_ExternalFailureFallsBack ==
    (ExternalMode /\ pc = "returned" /\ ExternalCallFailed) =>
        /\ result.status = "ok"
        /\ result = HeuristicOutput

C15_Witness ==
    /\ ExternalMode
    /\ pc = "returned"
    /\ wire.reply.kind = "Timeout"
    /\ result = HeuristicOutput
    /\ Len(result.payload) > 0

\* C16: a batch of the external service is accepted only if every entry has
\* exactly the four keys title, chart_type, parameters and insight; a batch
\* with any other entry is rejected whole and the heuristic's list returned.
C16_Original ==
    (ExternalMode /\ pc = "returned" /\ service.llm_client.kind = "openai"
       /\ wire.reply.kind = "content") =>
        /\ (wire.outcome.status = "ok" =>
              \A i \in 1..Len(wire.outcome.payload.v) :
                  /\ wire.outcome.payload.v[i].j = "dict"
                  /\ DOMAIN wire.outcome.payload.v[i].v = RequiredKeys)
        /\ (wire.outcome.status # "ok" => result = HeuristicOutput)

\* C17: within one recommend_chart_types call the client's recommend is
\* called at most once and at most one request is sent; while the call
\* waits for the client, and when the exchange ends, nothing further is
\* sent; and the call returns only once the client is no longer busy.
C17_ExternalCalledAtMostOnce ==
    /\ [](/\ wire.recommend_calls <= 1
          /\ wire.posts <= 1
          /\ (pc = "returned" => ~wire.pending)
          /\ (wire.pending => pc = "waiting"))
    /\ [][ pc = "waiting" =>
             /\ wire'.posts = wire.posts
             /\ wire'.recommend_calls = wire.recommend_calls ]_vars

C17_Witness ==
    /\ ExternalMode
    /\ pc = "returned"
    /\ wire.posts = 1
    /\ wire.recommend_calls = 1
    /\ wire.reply.kind = "Timeout"

\* The environment now would give a service the other mode.
EnvironmentDisagrees == Constructed /\ UseMock(env) # service.use_mock

\* C26: the mode is fixed when the service is constructed: the instance is
\* never changed afterwards, whatever becomes of the environment, and each
\* of its recommend_chart_types calls goes to the client exactly when the
\* instance is in external mode.
C26_ModeReadOnceAtConstruction ==
    /\ [](pc # "idle" => (wire.recommend_calls = 0 <=> service.use_mock))
    /\ [][Constructed => service' = service]_vars

\* A service constructed in external mode has sent a request although the
\* environment now asks for the fallback.
C26_Witness ==
    /\ EnvironmentDisagrees
    /\ ~service.use_mock
    /\ pc = "waiting"
    /\ wire.recommend_calls = 1
    /\ wire.posts = 1

\* The call went to OpenAILLMClient and the exchange ended with a content.
AnsweredWithContent ==
    /\ ExternalMode
    /\ pc = "returned"
    /\ service.llm_client.kind = "openai"
    /\ wire.reply.kind = "content"
    /\ ~wire.reply.content.is_none

\* The content is a markdown code block, with or without a language tag.
InCodeBlock ==
    /\ Len(wire.reply.content.segments) = 3
    /\ wire.reply.content.segments[1] = EmptySegment

\* The document is an array whose entries all have the four required keys.
ValidArray ==
    /\ ReplyDocument.j = "list"
    /\ \A i \in 1..Len(ReplyDocument.v) :
           /\ ReplyDocument.v[i].j = "dict"
           /\ RequiredKeys \subseteq DOMAIN ReplyDocument.v[i].v

\* C29: when the content is a recommendation array inside a markdown code
\* block, with or without a language tag, recommend returns the array of
\* the block and recommend_chart_types returns those recommendations.
C29_Original ==
    (AnsweredWithContent /\ InCodeBlock /\ ValidArray) =>
        /\ wire.outcome = Ok(ReplyDocument)
        /\ result = Ok(ReplyDocument.v)

\* The text json.loads is given carries no language tag.
TextIsJson ==
    LET segments == wire.reply.content.segments
    IN  IF InCodeBlock THEN segments[2].tag = "" ELSE segments[1].tag = ""

InitSummary ==
    /\ df \in Frames
    /\ req = NoRequest
    /\ entry = "none"
    /\ result = NoResult
    /\ repeated = FALSE
    /\ df_summary = NoSummary
    /\ OrchIdle
    /\ LoadIdle
    /\ WebIdle

CallGetDataframeSummary ==
    /\ entry = "none"
    /\ result' = GetDataframeSummary(df)
    /\ entry' = "profiler"
    /\ UNCHANGED <<df, req, repeated, df_summary, orchVars, loadVars, webVars>>

NextSummary == CallGetDataframeSummary

SpecSummary == InitSummary /\ [][NextSummary]_vars

(***************************************************************************)
(* What the properties of the profiler speak of, computed from the frame.  *)
(***************************************************************************)
Profiled == entry = "profiler"

Summarized == Profiled /\ result.status = "ok"

FrameRows == IF Len(df) = 0 THEN 0 ELSE Len(df[1].cells)

DistinctPresent(i) == Cardinality({df[i].cells[r] : r \in 1..FrameRows} \ {Null})

NullCells(i) == Cardinality({r \in 1..FrameRows : df[i].cells[r] = Null})

PresentCells(i) == Cardinality({r \in 1..FrameRows : df[i].cells[r] # Null})

NumericColumn(i) == df[i].dtype \in {"int64", "float64", "bool"}

DatetimeColumn(i) == df[i].dtype = "datetime64[ns]"

\* categorical below one half, text from one half on.
ByRatio(i) == IF 2 * DistinctPresent(i) < FrameRows THEN "categorical" ELSE "text"

\* The summary names each column once, in the order of the frame.
OneTypePerColumn ==
    /\ Len(result.payload.column_types) = Len(df)
    /\ \A i \in 1..Len(df) : result.payload.column_types[i].col = df[i].name

\* C18 as stated: with at least one row every column has one classification,
\* numeric for a numeric dtype, datetime for a datetime dtype, and for every
\* other column categorical or text by distinct_count / row_count.
C18_Original ==
    (Profiled /\ FrameRows >= 1) =>
        /\ result.status = "ok"
        /\ OneTypePerColumn
        /\ \A i \in 1..Len(df) :
             result.payload.column_types[i].type =
                 IF NumericColumn(i) THEN "numeric"
                 ELSE IF DatetimeColumn(i) THEN "datetime"
                 ELSE ByRatio(i)

\* C18 (amended): with at least one row every column has one classification:
\* numeric for a numeric dtype, datetime for a datetime dtype, for an object
\* column categorical or text by distinct non-null values / row count
\* (exactly 0.5 gives text), and other for a column of any other dtype.
C18_ClassificationByDtypeAndRatio ==
    (Profiled /\ FrameRows >= 1) =>
        /\ result.status = "ok"
        /\ OneTypePerColumn
        /\ \A i \in 1..Len(df) :
             result.payload.column_types[i].type =
                 IF NumericColumn(i) THEN "numeric"
                 ELSE IF DatetimeColumn(i) THEN "datetime"
                 ELSE IF df[i].dtype = "object" THEN ByRatio(i)
                 ELSE "other"

C18_Witness ==
    /\ Summarized
    /\ Len(df) = 2
    /\ df[1].dtype = "object"
    /\ 2 * DistinctPresent(1) = FrameRows
    /\ result.payload.column_types[1].type = "text"
    /\ df[2].dtype = "timedelta64[ns]"
    /\ result.payload.column_types[2].type = "other"

\* C19: on a frame without rows get_dataframe_summary returns a summary
\* with row count 0 and null counts 0, and classifies every column that is
\* neither numeric nor datetime as categorical.
C19_Original ==
    (Profiled /\ FrameRows = 0) =>
        /\ result.status = "ok"
        /\ result.payload.shape.rows = 0
        /\ \A i \in 1..Len(df) : result.payload.null_counts[i].count = 0
        /\ \A i \in 1..Len(df) :
             (~NumericColumn(i) /\ ~DatetimeColumn(i)) =>
                 result.payload.column_types[i].type = "categorical"

\* C20: for every frame the summary lists as many columns as the frame has
\* (and as shape.columns says), null_counts and column_types are keyed by
\* the column names, and each column's null count plus its non-null count
\* is the row count (shape.rows).
C20_Original ==
    Profiled =>
        /\ result.status = "ok"
        /\ Len(result.payload.columns) = Len(df)
        /\ result.payload.shape.columns = Len(df)
        /\ {result.payload.null_counts[i].col : i \in 1..Len(result.payload.null_counts)}
             = {df[i].name : i \in 1..Len(df)}
        /\ {result.payload.column_types[i].col : i \in 1..Len(result.payload.column_types)}
             = {df[i].name : i \in 1..Len(df)}
        /\ result.payload.shape.rows = FrameRows
        /\ \A i \in 1..Len(df) :
             result.payload.null_counts[i].count + PresentCells(i) = FrameRows

(***************************************************************************)
(* The loader on its own: a caller holds a byte source, wherever its       *)
(* position stands, and a filename, and invokes                            *)
(* DataFrameService.load_from_bytes once.                                  *)
(***************************************************************************)
InitLoad ==
    /\ EngineIdle
    /\ entry = "none"
    /\ result = NoResult
    /\ repeated = FALSE
    /\ df_summary = NoSummary
    /\ OrchIdle
    /\ file_bytes \in {BytesIO(SubSeq(Blocks, 1, n), p) :
                       n \in 0..Len(Blocks), p \in 0..Len(Blocks)}
    /\ filename \in Filenames
    /\ WebIdle

CallLoadFromBytes ==
    /\ entry = "none"
    /\ LET load == LoadFromBytes(file_bytes, filename)
       IN  /\ result' = load
           /\ file_bytes' = load.file_bytes
    /\ entry' = "loader"
    /\ UNCHANGED <<df, req, repeated, df_summary, orchVars, filename, webVars>>

NextLoad == CallLoadFromBytes

SpecLoad == InitLoad /\ [][NextLoad]_vars

Loaded == entry = "loader"

\* The spellings of the supported extensions and the reader of each.
CsvSpellings == {"csv", "CSV"}

ExcelSpellings == {"xlsx", "xls", "XLS"}

JsonSpellings == {"json", "Json"}

HasDot == Len(filename) > 1

TrailingPiece == filename[Len(filename)]

ExpectedReader ==
    CASE TrailingPiece \in CsvSpellings -> "read_csv"
      [] TrailingPiece \in ExcelSpellings -> "read_excel"
      [] TrailingPiece \in JsonSpellings -> "read_json"
      [] OTHER -> "none"

SupportedName == HasDot /\ ExpectedReader # "none"

\* C21: load_from_bytes decides the format from the text after the last
\* '.' of the filename alone, ignoring case: a name without a '.' or with
\* another extension raises ValueError and no reader is given the bytes;
\* for csv/xlsx/xls/json the matching reader is given the whole content,
\* read from position 0 whatever the position was before the call.
C21_FormatFromTrailingExtension ==
    Loaded =>
        IF SupportedName
        THEN /\ result.outcome.status = "ok"
             /\ result.reads = 1
             /\ result.outcome.payload.reader = ExpectedReader
             /\ result.outcome.payload.bytes_read = file_bytes.data
        ELSE /\ result.outcome.status = "raised"
             /\ result.outcome.exc = "ValueError"
             /\ result.reads = 0

\* A two-block source is loaded under a name with two dots and an
\* upper-case extension, and the reader is given both blocks.
C21_Witness ==
    /\ Loaded
    /\ Len(filename) = 3
    /\ TrailingPiece = "CSV"
    /\ filename[2] = "txt"
    /\ Len(file_bytes.data) = 2
    /\ result.reads = 1
    /\ result.outcome.payload.bytes_read = file_bytes.data

(***************************************************************************)
(* The HTTP layer at work: clients post to /api/upload and /api/chart/data *)
(* in any order.  Every request is answered before the next one starts.    *)
(* An upload carries no file part, or a part with one of UploadNames and   *)
(* one of UploadDatas.  A chart-data request is the well-formed request of *)
(* its mode or that request with one field changed.                        *)
(***************************************************************************)
UploadNames == {<<"">>, <<"sales", "csv">>, <<"sales", "XLS">>, <<"report", "txt">>, <<"sales">>}

UploadDatas == {Blocks, HeaderLine, <<>>}

RegionBySales == JObj([x_axis |-> "region", y_axis |-> "sales"])

\* The parameters a request can carry, besides none at all.
ParameterValues ==
    {RegionBySales,
     JObj([x_axis |-> "region"]),
     JObj([x_axis |-> "", y_axis |-> "sales"]),
     JObj([x_axis |-> "missing", y_axis |-> "sales"]),
     JObj([y_axis |-> "sales"]),
     JArr(<<"x_axis">>)}

\* The multipart mode: the stored file with each form, each file with the
\* well-formed form.
MultipartRequests ==
    LET forms ==
            {[chart_type |-> "bar", parameters |-> Segment("", p)] : p \in ParameterValues}
              \cup {[chart_type |-> t, parameters |-> Segment("", RegionBySales)] :
                      t \in {"pie", "area", ""}}
              \cup {[chart_type |-> "bar", parameters |-> Segment("", NotJson)],
                    [chart_type |-> "bar"],
                    [parameters |-> Segment("", RegionBySales)],
                    [chart_type |-> "bar", parameters |-> Segment("", RegionBySales),
                     aggregation |-> "mean"]}
    IN  {[files |-> [file |-> FileStorage(<<"sales", "csv">>, Blocks)], form |-> f] :
           f \in forms}
          \cup {[files |-> [file |-> FileStorage(name, data)],
                 form |-> [chart_type |-> "bar", parameters |-> Segment("", RegionBySales)]] :
                  name \in UploadNames, data \in UploadDatas}

\* The bodies of the JSON mode.
ChartBodies ==
    {[filepath |-> StoredPath, chart_type |-> "bar", parameters |-> p] : p \in ParameterValues}
      \cup {[filepath |-> StoredPath, chart_type |-> t, parameters |-> RegionBySales] :
              t \in {"pie", "area", ""}}
      \cup {[filepath |-> f, chart_type |-> "bar", parameters |-> RegionBySales] :
              f \in {StoredPath, <<"absent", "csv">>, <<"report", "txt">>, <<"sales">>,
                     <<"">>}}
      \cup {[filepath |-> StoredPath, chart_type |-> "bar"],
            [filepath |-> StoredPath, parameters |-> RegionBySales],
            [chart_type |-> "bar", parameters |-> RegionBySales],
            [filepath |-> StoredPath, chart_type |-> "bar", parameters |-> RegionBySales,
             aggregation |-> "mean"],
            <<>>}

JsonRequests == {[files |-> <<>>, json |-> data] : data \in ChartBodies}

InitWeb ==
    /\ EngineIdle
    /\ entry = "none"
    /\ result = NoResult
    /\ repeated = FALSE
    /\ df_summary = NoSummary
    /\ OrchIdle
    /\ LoadIdle
    /\ sessions = [c \in Clients |-> EmptySession]
    /\ request = NoHttp
    /\ response = NoHttp

\* POST /api/upload by client c.
PostUpload ==
    \E c \in Clients,
       http \in {[files |-> <<>>]}
                 \cup {[files |-> [file |-> FileStorage(name, data)]] :
                         name \in UploadNames, data \in UploadDatas} :
        LET handled == UploadFile(http, sessions[c])
        IN  /\ request' = [kind |-> "upload", client |-> c, http |-> http]
            /\ response' = handled.response
            /\ sessions' = [sessions EXCEPT ![c] = handled.session]
            /\ UNCHANGED <<df, req, entry, result, repeated, df_summary, orchVars, loadVars>>

\* POST /api/chart/data by client c.
PostChartData ==
    \E c \in Clients, http \in MultipartRequests \cup JsonRequests :
        /\ request' = [kind |-> "chart", client |-> c, http |-> http]
        /\ response' = GetChartData(http, sessions[c])
        /\ UNCHANGED <<df, req, entry, result, repeated, df_summary, orchVars, loadVars,
                       sessions>>

NextWeb == PostUpload \/ PostChartData

SpecWeb == InitWeb /\ [][NextWeb]_vars

\* What the handlers were last asked.
Uploading == request.kind = "upload"

Charting == request.kind = "chart"

HasFilePart == "file" \in DOMAIN request.http.files

\* The client of the request has a file in its session.
ClientHasStoredFile == sessions[request.client] # EmptySession

\* A chart-data request with a valid ChartRequest and neither a file part
\* nor a filepath.
SessionOnlyRequest ==
    /\ Charting
    /\ ~HasFilePart
    /\ request.http.json # <<>>
    /\ "filepath" \notin DOMAIN request.http.json
    /\ DictGet(request.http.json, "chart_type", None) = "bar"
    /\ DictGet(request.http.json, "parameters", JNull) = RegionBySales

\* The response that serves a request from the file in the client's session.
ServedFromSession ==
    LET stored == sessions[request.client]
        chart_data == ChartServiceGetChartDataBytes(stored.uploaded_file,
                          stored.uploaded_filename, request.http.json.chart_type,
                          request.http.json.parameters,
                          DictGet(request.http.json, "aggregation", "sum"))
    IN  chart_data.status = "ok" /\ response = Response(200, chart_data.payload)

\* C22: once an upload has succeeded in a session, a chart-data request of
\* that session with a valid ChartRequest and neither file bytes nor a file
\* path is answered with the chart payload of the stored file.
C22_Original == (SessionOnlyRequest /\ ClientHasStoredFile) => ServedFromSession

\* The fields of a chart-data request and the parameters among them.
ChartFields == IF HasFilePart THEN request.http.form ELSE request.http.json

ChartParameters ==
    IF "parameters" \notin DOMAIN ChartFields THEN JNull
    ELSE IF HasFilePart THEN ChartFields.parameters.doc
    ELSE ChartFields.parameters

\* The name whose extension is not csv/xlsx/xls/json.
UnsupportedNames == {<<"report", "txt">>}

\* Missing or invalid fields, a missing or empty x_axis, an unknown column,
\* an unsupported chart kind.
InvalidChartFields ==
    \/ ChartFields = <<>>
    \/ DictGet(ChartFields, "chart_type", None) \notin ValidTypes
    \/ ChartParameters.j # "dict"
    \/ DictGet(ChartParameters.v, "x_axis", None) \in {None, "", "missing"}

ValidationFailure ==
    \/ /\ Uploading
       /\ \/ ~HasFilePart
          \/ request.http.files.file.filename \in UnsupportedNames \cup {<<"">>}
    \/ /\ Charting
       /\ HasFilePart
       /\ \/ request.http.files.file.filename \in UnsupportedNames \cup {<<"">>}
          \/ InvalidChartFields
    \/ /\ Charting
       /\ ~HasFilePart
       /\ \/ InvalidChartFields
          \/ DictGet(request.http.json, "filepath", <<"">>) \in UnsupportedNames \cup {<<"">>}

\* C23: a request that fails validation (missing or invalid fields, empty
\* or missing x_axis, unknown column, unsupported chart kind, unsupported
\* file format) is answered with a 4xx status on the upload endpoint and on
\* the chart-data endpoint in both of its modes.
C23_Original == ValidationFailure => response.status \in 400..499

\* The session an upload leaves when it succeeds: the bytes of the part,
\* rewound, and its filename.
UploadedNow ==
    StoredSession(BytesIO(request'.http.files.file.stream.data, 0),
                  request'.http.files.file.filename)

ColumnsTyped(t) ==
    LET items == SelectSeq(df_summary.column_types, LAMBDA it : it.type = t)
    IN  [i \in 1..Len(items) |-> items[i].col]

NumericColumns == ColumnsTyped("numeric")

CategoricalColumns == ColumnsTyped("categorical")

DatetimeColumns == ColumnsTyped("datetime")

\* What an entry recommends: the chart type and the axes.
Chart(chart_type, parameters) == [chart_type |-> chart_type, parameters |-> parameters]

Charts == [i \in 1..Len(result.payload) |->
              Chart(result.payload[i].chart_type, result.payload[i].parameters)]

ExpectedBar ==
    IF Len(CategoricalColumns) >= 1 /\ Len(NumericColumns) >= 1
    THEN << Chart("bar", [x_axis |-> CategoricalColumns[1], y_axis |-> NumericColumns[1]]) >>
    ELSE <<>>

ExpectedLine ==
    IF Len(DatetimeColumns) >= 1 /\ Len(NumericColumns) >= 1
    THEN << Chart("line", [x_axis |-> DatetimeColumns[1], y_axis |-> NumericColumns[1]]) >>
    ELSE <<>>

ExpectedPie ==
    IF Len(CategoricalColumns) >= 1
    THEN IF Len(NumericColumns) >= 1
         THEN << Chart("pie", [x_axis |-> CategoricalColumns[1], y_axis |-> NumericColumns[1]]) >>
         ELSE << Chart("pie", [x_axis |-> CategoricalColumns[1]]) >>
    ELSE <<>>

ExpectedScatter ==
    IF Len(NumericColumns) >= 2
    THEN << Chart("scatter", [x_axis |-> NumericColumns[1], y_axis |-> NumericColumns[2]]) >>
    ELSE <<>>

ExpectedTyped == ExpectedBar \o ExpectedLine \o ExpectedPie \o ExpectedScatter

\* C24: the result starts with the entries of the four typed rules in the
\* order bar, line, pie, scatter, each present exactly when its columns
\* exist and with the axes the rule names (the pie chart without a y_axis
\* key when there is no numeric column), and at most one entry follows them.
C24_TypedRulesInOrder ==
    HeuristicReturned =>
        /\ Len(Charts) >= Len(ExpectedTyped)
        /\ SubSeq(Charts, 1, Len(ExpectedTyped)) = ExpectedTyped
        /\ Len(Charts) <= Len(ExpectedTyped) + 1

\* All four typed rules fire on one summary.
C24_Witness ==
    /\ HeuristicReturned
    /\ Len(ExpectedTyped) = 4
    /\ [i \in 1..4 |-> Charts[i].chart_type] = <<"bar", "line", "pie", "scatter">>

\* An earlier entry already has the axes of the fifth rule.
PairCovered ==
    \E i \in 1..Len(ExpectedTyped) :
        /\ ExpectedTyped[i].parameters.x_axis = CategoricalColumns[1]
        /\ DictGet(ExpectedTyped[i].parameters, "y_axis", None)
             = NumericColumns[Len(NumericColumns)]

FifthRuleApplies ==
    /\ Len(NumericColumns) >= 2
    /\ Len(CategoricalColumns) >= 1
    /\ ~PairCovered

Combination(chart) ==
    <<chart.chart_type, chart.parameters.x_axis, DictGet(chart.parameters, "y_axis", None)>>

\* C25: after the typed entries comes the bar chart of the last numeric
\* column by the first categorical one exactly when there are 2 or more
\* numeric columns, a categorical column, and no earlier entry with those
\* axes; no two entries of a result agree in chart type, x_axis and y_axis.
C25_FifthRuleAndNoDuplicates ==
    HeuristicReturned =>
        /\ IF FifthRuleApplies
           THEN /\ Len(Charts) = Len(ExpectedTyped) + 1
                /\ Charts[Len(Charts)] =
                       Chart("bar", [x_axis |-> CategoricalColumns[1],
                                     y_axis |-> NumericColumns[Len(NumericColumns)]])
           ELSE ExpectedTyped # <<>> => Len(Charts) = Len(ExpectedTyped)
        /\ \A i, k \in 1..Len(Charts) :
               Combination(Charts[i]) = Combination(Charts[k]) => i = k

\* The fifth rule adds a fourth entry after bar, pie and scatter.
C25_Witness ==
    /\ HeuristicReturned
    /\ FifthRuleApplies
    /\ Len(ExpectedTyped) = 3
    /\ Len(Charts) = 4
    /\ Charts[4].chart_type = "bar"

====
